---- MODULE Spec2Model ----
(***************************************************************************)
(* Sketchfab likes -> collections: the matching and assignment core.       *)
(*   src/src/matching.py     Terms, normalize_text, collect_signals,       *)
(*                           policy_assign                                 *)
(*   src/src/auto_assign.py  run_auto_assign                               *)
(* A Python str is a sequence of one-character strings.  A pandas missing  *)
(* cell is the one-element sequence NaN, which no str equals.              *)
(***************************************************************************)
EXTENDS Integers, Sequences, FiniteSets, TLC

VARIABLES terms, horder, liked, before, lastop, item, signals, pr, pc,
          source,
          cols_df, remote, ops, calls, pushop,
          book, bookop,
          app_df, manual_edits, appop,
          pairs, mergeop,
          sent, request,
          busy, handlers

\* the variables of the matching core
coreVars == <<terms, horder, liked, before, lastop, item, signals, pr, pc>>

\* the variables of the term-configuration loader
loadVars == <<source>>

\* the variables of push: the Collections sheet, the members the service
\* holds, the planned operations, the add calls made, the last push
pushVars == <<cols_df, remote, ops, calls, pushop>>

\* the Liked Models sheet of the stored workbook and the last command run on it
bookVars == <<book, bookop>>

\* the legacy desktop app: its in-memory liked frame, the buffer of manual
\* edits and the last handler run
appVars == <<app_df, manual_edits, appop>>

\* the merge tool: the pairs find_similar_collections returned, the last run
mergeVars == <<pairs, mergeop>>

\* the HTTP client: the statuses received by the request in progress and
\* how it ended
reqVars == <<sent, request>>

\* the slim desktop app: state.busy and the handler invocations in progress
busyVars == <<busy, handlers>>

restVars == <<appVars, mergeVars, reqVars, busyVars>>

vars == <<coreVars, loadVars, pushVars, bookVars, restVars>>

(***************************************************************************)
(* Characters and Python str operations                                    *)
(***************************************************************************)
UpperCase == <<"A","B","C","D","E","F","G","H","I","J","K","L","M",
               "N","O","P","Q","R","S","T","U","V","W","X","Y","Z">>

LowerCase == <<"a","b","c","d","e","f","g","h","i","j","k","l","m",
               "n","o","p","q","r","s","t","u","v","w","x","y","z">>

DigitChars == <<"0","1","2","3","4","5","6","7","8","9">>

\* the characters of the model, in code point order (the order sorted() uses)
CodePoints == <<" ", "(", ")", "+", ",", "-", ".">> \o DigitChars \o <<":", ";">>
              \o UpperCase \o <<"_">> \o LowerCase

Range(s) == {s[i] : i \in 1..Len(s)}

CodePoint(c) == CHOOSE i \in 1..Len(CodePoints) : CodePoints[i] = c

WhiteSpace == {" "}

\* str.lower on one character
LowerChar(c) ==
    IF c \in Range(UpperCase)
    THEN LowerCase[CHOOSE i \in 1..Len(UpperCase) : UpperCase[i] = c]
    ELSE c

\* str.lower
Lower(s) == [i \in 1..Len(s) |-> LowerChar(s[i])]

\* a < b for str: lexicographic by code point
RECURSIVE StrLess(_, _)
StrLess(a, b) ==
    IF b = <<>> THEN FALSE
    ELSE IF a = <<>> THEN TRUE
    ELSE IF Head(a) = Head(b) THEN StrLess(Tail(a), Tail(b))
    ELSE CodePoint(Head(a)) < CodePoint(Head(b))

\* sorted(S) for a set of str
RECURSIVE Sorted(_)
Sorted(S) ==
    IF S = {} THEN <<>>
    ELSE LET m == CHOOSE x \in S : \A y \in S \ {x} : StrLess(x, y)
         IN  <<m>> \o Sorted(S \ {m})

\* sep.join(parts)
RECURSIVE Join(_, _)
Join(parts, sep) ==
    IF parts = <<>> THEN <<>>
    ELSE IF Len(parts) = 1 THEN parts[1]
    ELSE parts[1] \o sep \o Join(Tail(parts), sep)

\* sub in s
Contains(sub, s) ==
    \E i \in 0..(Len(s) - Len(sub)) :
        \A k \in 1..Len(sub) : s[i + k] = sub[k]

\* s.strip()
RECURSIVE LStrip(_)
LStrip(s) ==
    IF s # <<>> /\ Head(s) \in WhiteSpace THEN LStrip(Tail(s)) ELSE s

RECURSIVE RStrip(_)
RStrip(s) ==
    IF s # <<>> /\ s[Len(s)] \in WhiteSpace
    THEN RStrip(SubSeq(s, 1, Len(s) - 1)) ELSE s

Strip(s) == RStrip(LStrip(s))

\* s.split(sep) for a one-character sep: empty pieces are kept
RECURSIVE SplitAcc(_, _, _, _)
SplitAcc(s, sep, cur, acc) ==
    IF s = <<>> THEN Append(acc, cur)
    ELSE IF Head(s) = sep THEN SplitAcc(Tail(s), sep, <<>>, Append(acc, cur))
    ELSE SplitAcc(Tail(s), sep, Append(cur, Head(s)), acc)

Split(s, sep) == SplitAcc(s, sep, <<>>, <<>>)

\* s.replace(a, b) for one-character a and b
Replace(s, a, b) == [i \in 1..Len(s) |-> IF s[i] = a THEN b ELSE s[i]]

\* [p.strip() for p in pieces if p.strip()]
StripNonEmpty(pieces) ==
    LET stripped == [i \in 1..Len(pieces) |-> Strip(pieces[i])]
    IN  SelectSeq(stripped, LAMBDA p : p # <<>>)

\* s.split(): the whitespace-separated tokens, none empty
SplitWS(s) == SelectSeq(Split(s, " "), LAMBDA p : p # <<>>)

(***************************************************************************)
(* matching.py: normalize_text                                             *)
(***************************************************************************)
\* the characters the first re.sub keeps: [a-z0-9\s_\-]
KeptChars == Range(LowerCase) \cup Range(DigitChars) \cup WhiteSpace \cup {"_", "-"}

\* re.sub(r"[^a-z0-9\s_\-]+", " ", text): each run of other characters
\* becomes one space
RECURSIVE SubOthers(_)
SubOthers(s) ==
    IF s = <<>> THEN <<>>
    ELSE IF Head(s) \in KeptChars THEN <<Head(s)>> \o SubOthers(Tail(s))
    ELSE IF Len(s) > 1 /\ s[2] \notin KeptChars THEN SubOthers(Tail(s))
    ELSE <<" ">> \o SubOthers(Tail(s))

\* re.sub(r"\s+", " ", text): each run of whitespace becomes one space
RECURSIVE SubSpaces(_)
SubSpaces(s) ==
    IF s = <<>> THEN <<>>
    ELSE IF Head(s) \notin WhiteSpace THEN <<Head(s)>> \o SubSpaces(Tail(s))
    ELSE IF Len(s) > 1 /\ s[2] \in WhiteSpace THEN SubSpaces(Tail(s))
    ELSE <<" ">> \o SubSpaces(Tail(s))

\* normalize_text(*parts) for str parts ("p or ''" leaves a str as it is)
normalize_text(parts) == Strip(SubSpaces(SubOthers(Lower(Join(parts, <<" ">>)))))

(***************************************************************************)
(* rapidfuzz fuzz.partial_ratio, as matching.py calls it.  A score is the  *)
(* exact ratio [num, den] in lowest terms; the library returns the nearest *)
(* double.                                                                 *)
(***************************************************************************)
Max(a, b) == IF a >= b THEN a ELSE b

RECURSIVE GCD(_, _)
GCD(a, b) == IF b = 0 THEN a ELSE GCD(b, a % b)

Score(n, d) == LET g == GCD(n, d) IN [num |-> n \div g, den |-> d \div g]

IntScore(n) == [num |-> n, den |-> 1]

ScoreGeq(a, b) == a.num * b.den >= b.num * a.den

ScoreGt(a, b) == a.num * b.den > b.num * a.den

\* one row of the longest-common-subsequence table
RECURSIVE LcsRow(_, _, _, _)
LcsRow(prev, c, b, cur) ==
    IF Len(cur) = Len(b) + 1 THEN cur
    ELSE LET j == Len(cur)
         IN  LcsRow(prev, c, b,
                    Append(cur, IF c = b[j] THEN prev[j] + 1
                                ELSE Max(prev[j + 1], cur[j])))

RECURSIVE LcsRows(_, _, _)
LcsRows(a, b, prev) ==
    IF a = <<>> THEN prev[Len(b) + 1]
    ELSE LcsRows(Tail(a), b, LcsRow(prev, Head(a), b, <<0>>))

LCS(a, b) == LcsRows(a, b, [j \in 1..(Len(b) + 1) |-> 0])

\* fuzz.ratio: 100 * 2 * LCS / (len1 + len2), and 100 for two empty strings
ratio(a, b) ==
    IF Len(a) + Len(b) = 0 THEN IntScore(100)
    ELSE Score(200 * LCS(a, b), Len(a) + Len(b))

\* the windows of the longer string that partial_ratio aligns the shorter
\* string (length m) with: prefixes shorter than m, every substring of
\* length m, and the suffixes shorter than m
Windows(m, long) ==
    LET n == Len(long)
    IN  {SubSeq(long, 1, i) : i \in 1..(m - 1)}
        \cup {SubSeq(long, i, i + m - 1) : i \in 1..(n - m + 1)}
        \cup {SubSeq(long, i, n) : i \in (n - m + 2)..n}

BestOf(scores) == CHOOSE x \in scores : \A y \in scores : ScoreGeq(x, y)

partial_ratio(s1, s2) ==
    IF s1 = <<>> \/ s2 = <<>>
    THEN IF s1 = s2 THEN IntScore(100) ELSE IntScore(0)
    ELSE LET short == IF Len(s1) <= Len(s2) THEN s1 ELSE s2
             long  == IF Len(s1) <= Len(s2) THEN s2 ELSE s1
         IN  BestOf({ratio(short, w) : w \in Windows(Len(short), long)})

(***************************************************************************)
(* matching.py: Terms                                                      *)
(* A configuration document is [has, single_assignment_collections,        *)
(* negative_terms, collections]; a collection's entry is [name, has,       *)
(* include_terms, tag_terms, exclude_terms, fuzzy_threshold].  has is the  *)
(* set of keys the document gives; the dict of collections is the sequence *)
(* of its entries in document order, which is the order Python iterates.   *)
(***************************************************************************)
DEFAULT_THRESHOLD == 88

STRONG_FUZZY == 95

MIN_VOTES == 2

\* the keys of a mapping whose value is one YAML string where a list of
\* strings is expected
ScalarKeys(d) == IF "scalar" \in DOMAIN d THEN d.scalar ELSE {}

\* the elements of (d.get(key) or []): iterating a str gives its characters
GetOrEmpty(d, key) ==
    IF key \notin d.has THEN {}
    ELSE IF key \in ScalarKeys(d) THEN {<<ch>> : ch \in Range(d[key])}
    ELSE d[key]

\* Terms.__init__ without the lowercasing of the negative terms
Terms_RawNegative(cfg) ==
    [single      |-> GetOrEmpty(cfg, "single_assignment_collections"),
     negative    |-> GetOrEmpty(cfg, "negative_terms"),
     collections |-> IF "collections" \in cfg.has THEN cfg.collections ELSE <<>>]

\* Terms.__init__
Terms(cfg) ==
    [single      |-> GetOrEmpty(cfg, "single_assignment_collections"),
     negative    |-> {Lower(t) : t \in GetOrEmpty(cfg, "negative_terms")},
     collections |-> IF "collections" \in cfg.has THEN cfg.collections ELSE <<>>]

(***************************************************************************)
(* matching.py: collect_signals                                            *)
(* MatchSignals: tag_hits and rule_hits are sets of collection names,      *)
(* fuzzy_hits is the dict as the sequence of its [name, score] items in    *)
(* insertion order.                                                        *)
(***************************************************************************)
\* lines 55-58: the rule's term sets, lowercased, and its threshold
include_terms(cfg) == {Lower(t) : t \in GetOrEmpty(cfg, "include_terms")}

tag_terms(cfg) == {Lower(t) : t \in GetOrEmpty(cfg, "tag_terms")}

exclude_terms(cfg) == {Lower(t) : t \in GetOrEmpty(cfg, "exclude_terms")}

threshold(cfg) ==
    IF "fuzzy_threshold" \in cfg.has THEN cfg.fuzzy_threshold ELSE DEFAULT_THRESHOLD

\* the guards without the negative terms
Skipped_ExcludeOnly(cfg, name_desc, t) ==
    \E et \in exclude_terms(cfg) : Contains(et, name_desc)

\* lines 61-64: the negative and exclude guards
Skipped(cfg, name_desc, t) ==
    \/ \E nt \in t.negative : Contains(nt, name_desc)
    \/ \E et \in exclude_terms(cfg) : Contains(et, name_desc)

\* lines 75-79: best_score starts at 0 and keeps the largest score
best_score(cfg, name_desc) ==
    BestOf({IntScore(0)} \cup {partial_ratio(it, name_desc) : it \in include_terms(cfg)})

\* line 80
FuzzyHit(best, thr) == ScoreGeq(best, IntScore(thr))

\* lines 54-81: the loop over terms.collections
RECURSIVE CollectLoop(_, _, _, _, _, _)
CollectLoop(colls, name_desc, tokens, tagset, t, acc) ==
    IF colls = <<>> THEN acc
    ELSE LET cfg  == Head(colls)
             best == best_score(cfg, name_desc)
             nxt  ==
               IF Skipped(cfg, name_desc, t) THEN acc
               ELSE [tag_hits  |-> IF tag_terms(cfg) \cap tagset # {}
                                   THEN acc.tag_hits \cup {cfg.name}
                                   ELSE acc.tag_hits,
                     rule_hits |-> IF include_terms(cfg) \cap tokens # {}
                                   THEN acc.rule_hits \cup {cfg.name}
                                   ELSE acc.rule_hits,
                     fuzzy_hits |-> IF FuzzyHit(best, threshold(cfg))
                                    THEN Append(acc.fuzzy_hits,
                                                [name |-> cfg.name, score |-> best])
                                    ELSE acc.fuzzy_hits]
         IN  CollectLoop(Tail(colls), name_desc, tokens, tagset, t, nxt)

NoSignals == [tag_hits |-> {}, rule_hits |-> {}, fuzzy_hits |-> <<>>]

\* collect_signals matching on the name and the description alone
collect_signals_NoTags(model_name, description, tags, t) ==
    LET name_desc == normalize_text(<<model_name, description>>)
        tokens    == Range(SplitWS(name_desc))
        tagset    == {Lower(tg) : tg \in Range(tags)}
    IN  CollectLoop(t.collections, name_desc, tokens, tagset, t, NoSignals)

collect_signals(model_name, description, tags, t) ==
    LET name_desc == normalize_text(<<model_name, description, Join(tags, <<",">>)>>)
        tokens    == Range(SplitWS(name_desc))
        tagset    == {Lower(tg) : tg \in Range(tags)}
    IN  CollectLoop(t.collections, name_desc, tokens, tagset, t, NoSignals)

(***************************************************************************)
(* matching.py: policy_assign                                              *)
(* Python iterates a set of str in an order fixed by the process's string  *)
(* hash seed: order is that order, a sequence listing every name once.     *)
(***************************************************************************)
\* [x for x in S]
SetIter(S, order) == SelectSeq(order, LAMBDA x : x \in S)

FuzzyNames(sig) == {sig.fuzzy_hits[i].name : i \in 1..Len(sig.fuzzy_hits)}

\* lines 88-94
votes(sig, c) ==
    (IF c \in sig.tag_hits THEN 1 ELSE 0)
    + (IF c \in sig.rule_hits THEN 1 ELSE 0)
    + (IF c \in FuzzyNames(sig) THEN 1 ELSE 0)

\* line 96
strong_fuzzy(sig) ==
    {sig.fuzzy_hits[i].name : i \in {k \in 1..Len(sig.fuzzy_hits) :
        ScoreGeq(sig.fuzzy_hits[k].score, IntScore(STRONG_FUZZY))}}

\* the primary rule without the strong-fuzzy alternative
Provisional_VotesOnly(sig) ==
    {c \in sig.tag_hits \cup sig.rule_hits \cup FuzzyNames(sig) :
        votes(sig, c) >= MIN_VOTES}

\* lines 102-104
Provisional(sig) ==
    {c \in sig.tag_hits \cup sig.rule_hits \cup FuzzyNames(sig) :
        votes(sig, c) >= MIN_VOTES \/ c \in strong_fuzzy(sig)}

\* line 107
single_hits(assigned, t, order) == SetIter(assigned \cap t.single, order)

\* a collision only from three single-assignment collections on
Collision_Three(hits) == Len(hits) > 2

\* line 108
Collision(hits) == Len(hits) > 1

\* lines 111-112
AfterCollision(assigned, hits) ==
    IF Collision(hits) THEN assigned \ Range(hits) ELSE assigned

\* a max() that keeps the last item of the largest score
TopFuzzy_Last(fuzzy_hits) ==
    LET i == CHOOSE k \in 1..Len(fuzzy_hits) :
               /\ \A j \in 1..Len(fuzzy_hits) :
                     ScoreGeq(fuzzy_hits[k].score, fuzzy_hits[j].score)
               /\ \A j \in (k + 1)..Len(fuzzy_hits) :
                     ScoreGt(fuzzy_hits[k].score, fuzzy_hits[j].score)
    IN  fuzzy_hits[i]

\* line 116: max() keeps the first item, in dict order, of the largest score
TopFuzzy(fuzzy_hits) ==
    LET i == CHOOSE k \in 1..Len(fuzzy_hits) :
               /\ \A j \in 1..Len(fuzzy_hits) :
                     ScoreGeq(fuzzy_hits[k].score, fuzzy_hits[j].score)
               /\ \A j \in 1..(k - 1) :
                     ScoreGt(fuzzy_hits[k].score, fuzzy_hits[j].score)
    IN  fuzzy_hits[i]

\* the fallback without its test of the assigned set
Fallback_Always(assigned, sig) == sig.fuzzy_hits # <<>>

\* line 115
Fallback(assigned, sig) == assigned = {} /\ sig.fuzzy_hits # <<>>

\* str(n) for a natural number
RECURSIVE NatStr(_)
NatStr(n) ==
    IF n < 10 THEN <<DigitChars[n + 1]>>
    ELSE NatStr(n \div 10) \o <<DigitChars[(n % 10) + 1]>>

\* str(score) in the f-strings: a score of 0 is the int best_score started
\* from, "0"; any other is a float, "100.0", and of a float that is no
\* integer the first three decimals (Python prints up to 17 significant
\* digits)
FormatScore(s) ==
    LET ip   == s.num \div s.den
        frac == ((s.num % s.den) * 1000) \div s.den
        d3   == <<DigitChars[(frac \div 100) + 1], DigitChars[((frac \div 10) % 10) + 1],
                  DigitChars[(frac % 10) + 1]>>
    IN  IF s.num = 0 THEN <<"0">>
        ELSE NatStr(ip) \o <<".">> \o (IF frac = 0 THEN <<"0">> ELSE d3)

COLLISION_PREFIX == <<"S","i","n","g","l","e","-","a","s","s","i","g","n","m","e","n","t"," ","c","o","l","l","i","s","i","o","n",":"," ">>

FALLBACK_PREFIX == <<"H","i","g","h"," ","f","u","z","z","y"," ","c","a","n","d","i","d","a","t","e",":"," ">>

\* line 110
CollisionNote(hits) == COLLISION_PREFIX \o Join(hits, <<",", " ">>)

\* line 117
FallbackNote(top) ==
    FALLBACK_PREFIX \o top.name \o <<" ", "(">> \o FormatScore(top.score) \o <<")">>

policy_assign(sig, t, order) ==
    LET hits     == single_hits(Provisional(sig), t, order)
        assigned == AfterCollision(Provisional(sig), hits)
        notes    == (IF Collision(hits) THEN <<CollisionNote(hits)>> ELSE <<>>)
                    \o (IF Fallback(assigned, sig)
                        THEN <<FallbackNote(TopFuzzy(sig.fuzzy_hits))>> ELSE <<>>)
    IN  [assigned |-> Sorted(assigned), notes |-> Join(notes, <<";", " ">>)]

(***************************************************************************)
(* auto_assign.py: run_auto_assign                                         *)
(* A row of the liked frame is [uid, name, desc, tags, sug, fuzzy,         *)
(* assigned, notes] for the columns Model UID, Model Name, Description,    *)
(* Tags and the four annotation columns.  A cell is a str, NaN (an empty   *)
(* cell as pandas reads it) or None (row.get of a column the frame lacks). *)
(***************************************************************************)
NaN == <<"NaN">>

None == <<"None">>

\* pd.isna(x) or x is None
IsNa(x) == x = NaN \/ x = None

\* x or "": None and "" are falsy, NaN is a float and truthy
OrEmpty(x) == IF x = None THEN <<>> ELSE x

\* str(x): str(float("nan")) is "nan"
PyStr(x) == IF x = NaN THEN <<"n", "a", "n">> ELSE x

\* lines 22-27
to_list(x) ==
    IF IsNa(x) THEN <<>>
    ELSE StripNonEmpty(Split(Replace(x, ";", ","), ","))

\* line 37
RowTags(row) == StripNonEmpty(Split(PyStr(OrEmpty(row.tags)), ","))

\* line 39; normalize_text joins its parts with str.join, which raises
\* TypeError on the float NaN
SignalsRaise(row) == OrEmpty(row.name) = NaN \/ OrEmpty(row.desc) = NaN

(***************************************************************************)
(* The strings of the model                                                *)
(***************************************************************************)
s_robots == <<"r","o","b","o","t","s">>

s_hands == <<"h","a","n","d","s">>

s_feet == <<"f","e","e","t">>

s_gauntlets == <<"g","a","u","n","t","l","e","t","s">>

s_robot == <<"r","o","b","o","t">>

s_mech == <<"m","e","c","h">>

s_foot == <<"f","o","o","t">>

s_Hands == <<"H","a","n","d","s">>

s_NSFW == <<"N","S","F","W">>

s_18plus == <<"1","8","+">>

s_scifi == <<"s","c","i","f","i">>

n_mecha_unit == <<"M","e","c","h","a"," ","U","n","i","t">>

n_mech == <<"m","e","c","h">>

n_hands_foot == <<"H","a","n","d","s"," ","f","o","o","t">>

n_nsfw_hands == <<"N","S","F","W"," ","h","a","n","d","s">>

n_hand == <<"h","a","n","d">>

n_foot_18plus == <<"F","o","o","t"," ","1","8","+">>

n_hanb == <<"a"," ","h","a","n","b">>

t_robot_scifi == <<"r","o","b","o","t",","," ","s","c","i","f","i">>

t_hands_foot == <<"H","a","n","d","s",",","f","o","o","t">>

t_robot == <<"r","o","b","o","t">>

d_foot == <<"o","n","e"," ","f","o","o","t">>

a_hands_semi_feet == <<"h","a","n","d","s",";","f","e","e","t">>

a_blank == <<" ">>

a_manual == <<"m","a","n","u","a","l">>


(***************************************************************************)
(* Bounded inputs                                                          *)
(***************************************************************************)
\* the most rows a liked frame holds
MaxItems == 2

\* consecutive runs the history counts
MaxStreak == 2

CollNames == {s_robots, s_hands, s_feet}

RECURSIVE Perms(_)
Perms(S) ==
    IF S = {} THEN {<<>>}
    ELSE UNION {{<<x>> \o p : p \in Perms(S \ {x})} : x \in S}

\* the iteration orders a process's hash seed can give a set of names
HashOrders == Perms(CollNames)

AllKeys == {"include_terms", "tag_terms", "exclude_terms", "fuzzy_threshold"}

\* Scenario A's rule: include robot and mech, tag robot, threshold 88
R_robots ==
    [name |-> s_robots, has |-> {"include_terms", "tag_terms", "fuzzy_threshold"},
     include_terms |-> {s_robot, s_mech}, tag_terms |-> {s_robot},
     exclude_terms |-> {}, fuzzy_threshold |-> 88]

\* no threshold given: the default applies
R_hands ==
    [name |-> s_hands, has |-> {"include_terms", "tag_terms"},
     include_terms |-> {s_Hands}, tag_terms |-> {s_hands},
     exclude_terms |-> {}, fuzzy_threshold |-> 0]

R_feet ==
    [name |-> s_feet, has |-> AllKeys,
     include_terms |-> {s_foot}, tag_terms |-> {s_foot},
     exclude_terms |-> {s_mech}, fuzzy_threshold |-> 100]

\* a rule with no terms and threshold 0
R_bare ==
    [name |-> s_robots, has |-> {"fuzzy_threshold"},
     include_terms |-> {}, tag_terms |-> {},
     exclude_terms |-> {}, fuzzy_threshold |-> 0]

Doc(has, single, negative, colls) ==
    [has |-> has, single_assignment_collections |-> single,
     negative_terms |-> negative, collections |-> colls]

\* Scenario A's document: no single-assignment set, no negative terms
DocA == Doc({"collections"}, {}, {}, <<R_robots>>)

ConfigDocs ==
    { DocA,
      Doc({"collections", "single_assignment_collections", "negative_terms"},
          {s_hands, s_feet}, {s_NSFW}, <<R_hands, R_feet, R_robots>>),
      Doc({"collections", "single_assignment_collections", "negative_terms"},
          {s_feet}, {s_18plus}, <<R_feet, R_hands>>),
      Doc({"collections", "single_assignment_collections"},
          {s_hands, s_feet, s_robots}, {}, <<R_bare, R_hands, R_feet>>) }

TermsChoices == {Terms(d) : d \in ConfigDocs}

ItemNames == {n_mecha_unit, n_mech, n_hands_foot, n_nsfw_hands, n_hand, n_hanb, n_foot_18plus}

ItemDescs == {<<>>, d_foot}

ItemTags == {<<>>, t_robot_scifi, t_hands_foot, t_robot}

Items == [name : ItemNames, desc : ItemDescs, tags : ItemTags]

NoItem == [name |-> <<>>, desc |-> <<>>, tags |-> <<>>]

NoResult == [assigned |-> <<>>, notes |-> <<>>]

ItemTagLists == {StripNonEmpty(Split(t, ",")) : t \in ItemTags}

SigItems == [name : ItemNames, desc : ItemDescs, tags : ItemTagLists]

\* fuzzy scores drawn for policy_assign: below and above STRONG_FUZZY
PolicyScores == {IntScore(90), IntScore(100)}

\* every dict of fuzzy hits over the names, in every insertion order
FuzzySeqs ==
    UNION {{[i \in 1..Len(p) |-> [name |-> p[i], score |-> f[p[i]]]] :
              f \in [S -> PolicyScores], p \in Perms(S)} : S \in SUBSET CollNames}

SignalChoices ==
    [tag_hits : SUBSET CollNames, rule_hits : SUBSET CollNames, fuzzy_hits : FuzzySeqs]

SingleChoices ==
    {[single |-> S, negative |-> {}, collections |-> <<>>] : S \in SUBSET CollNames}

Row(name, desc, tags, assigned, notes) ==
    [uid |-> <<>>, name |-> name, desc |-> desc, tags |-> tags,
     sug |-> NaN, fuzzy |-> NaN, assigned |-> assigned, notes |-> notes]

\* a row with an empty Description cell, as read back from the workbook
NaNDescRow == Row(n_mech, NaN, t_robot, NaN, NaN)

\* the rows a frame is drawn from: cells as read from the workbook (NaN for
\* an empty cell) or as a run left them (""), assigned by hand or not
RowChoices ==
    { Row(n_mecha_unit, <<>>, t_robot_scifi, NaN, NaN),
      Row(n_hands_foot, <<>>, t_hands_foot, <<>>, <<>>),
      Row(n_hands_foot, <<>>, t_hands_foot, s_gauntlets, a_manual),
      Row(n_nsfw_hands, <<>>, t_hands_foot, a_hands_semi_feet, NaN),
      Row(n_nsfw_hands, <<>>, t_hands_foot, NaN, NaN),
      Row(n_hand, <<>>, NaN, a_blank, a_manual),
      Row(n_foot_18plus, d_foot, <<>>, <<>>, NaN),
      NaNDescRow }

Frames ==
    UNION {{[i \in 1..n |-> [f[i] EXCEPT !.uid = NatStr(i)]] : f \in [1..n -> RowChoices]} :
             n \in 1..MaxItems}

(***************************************************************************)
(* run_auto_assign (src/auto_assign.py): the loop over the rows            *)
(***************************************************************************)
\* line 39 on every input row under every configuration, evaluated once:
\* the cells model_name, Description and Tags are never written by a run
RowSignalsTable ==
    {<<<<t, OrEmpty(r.name), OrEmpty(r.desc), RowTags(r)>>,
       collect_signals(OrEmpty(r.name), OrEmpty(r.desc), RowTags(r), t)>> :
       t \in TermsChoices, r \in {x \in RowChoices : ~SignalsRaise(x)}}

\* line 39
RowSignals(row, t) ==
    LET key == <<t, OrEmpty(row.name), OrEmpty(row.desc), RowTags(row)>>
    IN  IF \E e \in RowSignalsTable : e[1] = key
        THEN (CHOOSE e \in RowSignalsTable : e[1] = key)[2]
        ELSE collect_signals(OrEmpty(row.name), OrEmpty(row.desc), RowTags(row), t)

\* the suggested cell from the tag hits alone
SugCell_TagsOnly(sig) == Join(Sorted(sig.tag_hits), <<",", " ">>)

\* line 42, 45
SugCell(sig) == Join(Sorted(sig.tag_hits \cup sig.rule_hits), <<",", " ">>)

\* lines 43, 46: the dict items sorted by name, as "name:score"
FuzzyCell(sig) ==
    LET byName == Sorted(FuzzyNames(sig))
        scoreOf(n) == (CHOOSE h \in Range(sig.fuzzy_hits) : h.name = n).score
    IN  Join([i \in 1..Len(byName) |->
                byName[i] \o <<":">> \o FormatScore(scoreOf(byName[i]))],
             <<",", " ">>)

\* the test of line 50 with the overwrite flag inverted
KeepExisting_Inverted(existing, overwrite) == existing # <<>> /\ overwrite

\* line 50
KeepExisting(existing, overwrite) == existing # <<>> /\ ~overwrite

\* one row of the loop writing the fresh assignment beside the notes the
\* row already had
AssignRow_StaleNotes(row, t, overwrite, order) ==
    LET sig      == RowSignals(row, t)
        existing == to_list(row.assigned)
        res      == policy_assign(sig, t, order)
    IN  [row EXCEPT
           !.sug      = SugCell(sig),
           !.fuzzy    = FuzzyCell(sig),
           !.assigned = IF KeepExisting(existing, overwrite)
                        THEN Join(existing, <<",", " ">>)
                        ELSE Join(res.assigned, <<",", " ">>),
           !.notes    = OrEmpty(row.notes)]

\* lines 34-57: one row of the loop
AssignRow(row, t, overwrite, order) ==
    LET sig      == RowSignals(row, t)
        existing == to_list(row.assigned)
        res      == policy_assign(sig, t, order)
    IN  [row EXCEPT
           !.sug      = SugCell(sig),
           !.fuzzy    = FuzzyCell(sig),
           !.assigned = IF KeepExisting(existing, overwrite)
                        THEN Join(existing, <<",", " ">>)
                        ELSE Join(res.assigned, <<",", " ">>),
           !.notes    = IF KeepExisting(existing, overwrite)
                        THEN OrEmpty(row.notes)
                        ELSE res.notes]

\* the frame passed in as it stands after a call that writes its four
\* columns into the frame itself
InputAfterCall_InPlace(df, out) == out

\* line 20: out is a copy of liked_df and lines 59-62 write into out, so the
\* frame passed in stands after the call as it stood before
InputAfterCall(df, out) == df

\* the call raises when a row's signals cannot be computed
RunRaises(df) == \E i \in 1..Len(df) : SignalsRaise(df[i])

\* the frame run_auto_assign returns when it does not raise
run_auto_assign(df, t, overwrite, order) ==
    [i \in 1..Len(df) |-> AssignRow(df[i], t, overwrite, order)]

(***************************************************************************)
(* Specification of the runner: a process holds a liked frame and runs     *)
(* run_auto_assign on it; Restart is a later process (a new hash seed)     *)
(* working on the same frame.                                              *)
(***************************************************************************)
\* no configuration file in play
NoSource == [kind |-> "none"]

\* no workbook: data/sketchfab_data.xlsx does not exist
NoBook == [columns |-> <<>>, rows |-> <<>>]

NoBookInPlay ==
    /\ book = NoBook
    /\ bookop = [op |-> "none"]

\* no desktop app, merge tool or HTTP request in play
RestIdle ==
    /\ app_df = <<>>
    /\ manual_edits = <<>>
    /\ appop = [op |-> "none"]
    /\ pairs = <<>>
    /\ mergeop = [op |-> "none"]
    /\ sent = <<>>
    /\ request = [state |-> "idle"]
    /\ busy = FALSE
    /\ handlers = <<>>

\* no push in play
NoPush ==
    /\ cols_df = <<>>
    /\ remote = <<>>
    /\ ops = <<>>
    /\ calls = <<>>
    /\ pushop = [op |-> "none"]

NoOp == [op |-> "none", overwrite |-> FALSE, raised |-> FALSE, streak |-> 0]

Min(a, b) == IF a <= b THEN a ELSE b

Init ==
    /\ terms \in TermsChoices
    /\ horder \in HashOrders
    /\ liked \in Frames
    /\ before = liked
    /\ lastop = NoOp
    /\ item = NoItem
    /\ signals = NoSignals
    /\ pr = NoResult
    /\ pc = "idle"
    /\ source = NoSource
    /\ NoPush
    /\ NoBookInPlay
    /\ RestIdle

\* liked is the frame the caller holds and rebinds to the result; before is
\* the frame that was passed in, as it stands after the call; streak counts
\* the completed overwrite=false runs in a row
AutoAssign(overwrite) ==
    /\ pc = "idle"
    /\ IF RunRaises(liked)
       THEN /\ liked' = liked
            /\ before' = liked
            /\ lastop' = [op |-> "auto_assign", overwrite |-> overwrite,
                          raised |-> TRUE, streak |-> 0]
       ELSE /\ liked' = run_auto_assign(liked, terms, overwrite, horder)
            /\ before' = InputAfterCall(liked, liked')
            /\ lastop' = [op |-> "auto_assign", overwrite |-> overwrite,
                          raised |-> FALSE,
                          streak |-> IF overwrite THEN 0
                                     ELSE Min(lastop.streak + 1, MaxStreak)]
    /\ UNCHANGED <<terms, horder, item, signals, pr, pc>>
    /\ UNCHANGED <<loadVars, pushVars, bookVars, restVars>>

Restart ==
    /\ pc = "idle"
    /\ \E h \in HashOrders \ {horder} : horder' = h
    /\ UNCHANGED <<terms, liked, before, lastop, item, signals, pr, pc>>
    /\ UNCHANGED <<loadVars, pushVars, bookVars, restVars>>

Next ==
    \/ \E overwrite \in BOOLEAN : AutoAssign(overwrite)
    \/ Restart

Spec == Init /\ [][Next]_vars

(***************************************************************************)
(* Specification of the Signal Collector and the Policy Engine on one item *)
(***************************************************************************)
InitSignals ==
    /\ terms \in TermsChoices
    /\ horder \in HashOrders
    /\ item \in SigItems
    /\ signals = NoSignals
    /\ pr = NoResult
    /\ pc = "start"
    /\ liked = <<>>
    /\ before = <<>>
    /\ lastop = NoOp
    /\ source = NoSource
    /\ NoPush
    /\ NoBookInPlay
    /\ RestIdle

CollectSignals ==
    /\ pc = "start"
    /\ signals' = collect_signals(item.name, item.desc, item.tags, terms)
    /\ pc' = "collected"
    /\ UNCHANGED <<terms, horder, liked, before, lastop, item, pr>>
    /\ UNCHANGED <<loadVars, pushVars, bookVars, restVars>>

PolicyAssign ==
    /\ pc = "collected"
    /\ pr' = policy_assign(signals, terms, horder)
    /\ pc' = "done"
    /\ UNCHANGED <<terms, horder, liked, before, lastop, item, signals>>
    /\ UNCHANGED <<loadVars, pushVars, bookVars, restVars>>

NextSignals == CollectSignals \/ PolicyAssign

SpecSignals == InitSignals /\ [][NextSignals]_vars

(***************************************************************************)
(* Specification of the Policy Engine on every Match Signals value over    *)
(* the names                                                               *)
(***************************************************************************)
InitPolicy ==
    /\ terms \in SingleChoices
    /\ horder \in HashOrders
    /\ signals \in SignalChoices
    /\ pr = NoResult
    /\ pc = "collected"
    /\ item = NoItem
    /\ liked = <<>>
    /\ before = <<>>
    /\ lastop = NoOp
    /\ source = NoSource
    /\ NoPush
    /\ NoBookInPlay
    /\ RestIdle

NextPolicy == PolicyAssign

SpecPolicy == InitPolicy /\ [][NextPolicy]_vars

(***************************************************************************)
(* Terms.from_yaml (src/matching.py) and its caller cmd_auto_assign        *)
(* (src/pipeline.py): the terms file is loaded, then the items are         *)
(* matched.  source is the terms file: missing, not YAML, empty, a YAML    *)
(* sequence, or a YAML mapping (doc).                                      *)
(***************************************************************************)
\* a rule with none of the optional keys
R_plain ==
    [name |-> s_robots, has |-> {},
     include_terms |-> {}, tag_terms |-> {},
     exclude_terms |-> {}, fuzzy_threshold |-> 0]

\* "robots: {include_terms: robot}": one string where a list is expected
R_scalar ==
    [name |-> s_robots, has |-> {"include_terms"}, scalar |-> {"include_terms"},
     include_terms |-> s_robot, tag_terms |-> {},
     exclude_terms |-> {}, fuzzy_threshold |-> 0]

\* "robots:" with nothing under it: the rule is None
R_null ==
    [name |-> s_robots, has |-> {}, null |-> TRUE,
     include_terms |-> {}, tag_terms |-> {},
     exclude_terms |-> {}, fuzzy_threshold |-> 0]

\* a mapping with none of the three keys
DocNoKeys == Doc({}, {}, {}, <<>>)

\* "single_assignment_collections: hands": one string where a list is expected
DocScalarSingle ==
    [has |-> {"collections", "single_assignment_collections"},
     scalar |-> {"single_assignment_collections"},
     single_assignment_collections |-> s_hands,
     negative_terms |-> {}, collections |-> <<R_hands, R_feet>>]

WellFormedDocs ==
    ConfigDocs \cup {DocNoKeys, Doc({"collections"}, {}, {}, <<R_plain, R_hands>>)}

MalformedDocs ==
    { Doc({"collections"}, {}, {}, <<R_scalar>>),
      DocScalarSingle,
      Doc({"collections"}, {}, {}, <<R_hands, R_null>>) }

Sources ==
    {[kind |-> k] : k \in {"missing", "invalid", "empty", "sequence"}}
    \cup {[kind |-> "mapping", doc |-> d] : d \in WellFormedDocs \cup MalformedDocs}

\* lines 32-33: open() raises on a missing file, yaml.safe_load on text that
\* is not YAML; line 26: a list has no get
from_yaml_Raises(src) == src.kind \in {"missing", "invalid", "sequence"}

\* lines 33-34: an empty file loads as None, replaced by {}
from_yaml(src) == Terms(IF src.kind = "empty" THEN DocNoKeys ELSE src.doc)

\* line 55: cfg.get on a rule that is None raises AttributeError
IsNullRule(cfg) == "null" \in DOMAIN cfg /\ cfg.null

collect_signals_Raises(t) == \E i \in 1..Len(t.collections) : IsNullRule(t.collections[i])

InitLoad ==
    /\ source \in Sources
    /\ item \in SigItems
    /\ horder = CHOOSE h \in HashOrders : TRUE
    /\ terms = Terms(DocNoKeys)
    /\ signals = NoSignals
    /\ pr = NoResult
    /\ pc = "load"
    /\ liked = <<>>
    /\ before = <<>>
    /\ lastop = NoOp
    /\ NoPush
    /\ NoBookInPlay
    /\ RestIdle

\* pipeline.py line 90
LoadTerms ==
    /\ pc = "load"
    /\ IF from_yaml_Raises(source)
       THEN pc' = "load_failed" /\ terms' = terms
       ELSE pc' = "loaded" /\ terms' = from_yaml(source)
    /\ UNCHANGED <<horder, liked, before, lastop, item, signals, pr, source>>
    /\ UNCHANGED <<pushVars, bookVars, restVars>>

\* pipeline.py line 93, on one item
MatchItem ==
    /\ pc = "loaded"
    /\ IF collect_signals_Raises(terms)
       THEN pc' = "match_failed" /\ UNCHANGED <<signals, pr>>
       ELSE /\ pc' = "matched"
            /\ signals' = collect_signals(item.name, item.desc, item.tags, terms)
            /\ pr' = policy_assign(signals', terms, horder)
    /\ UNCHANGED <<terms, horder, liked, before, lastop, item, source>>
    /\ UNCHANGED <<pushVars, bookVars, restVars>>

NextLoad == LoadTerms \/ MatchItem

SpecLoad == InitLoad /\ [][NextLoad]_vars

(***************************************************************************)
(* push_assignments.py: push.  liked is the Liked Models sheet (Model UID  *)
(* and Assigned Collection(s)), cols_df the Collections sheet, remote the  *)
(* members the service holds for each collection uid.  list_failed are the *)
(* collections whose listing raises, outcome[k] tells whether the k-th     *)
(* add call returns.                                                       *)
(***************************************************************************)
\* line 21: the names of the Collections sheet
KnownNames(cdf) == {cdf[i].name : i \in 1..Len(cdf)}

\* line 21: a later row replaces an earlier row of the same name
name_to_uid(cdf, name) ==
    cdf[CHOOSE i \in 1..Len(cdf) :
          /\ cdf[i].name = name
          /\ \A j \in (i + 1)..Len(cdf) : cdf[j].name # name].uid

\* lines 24-30: a listing that raises leaves the empty set
existing(cdf, rem, list_failed) ==
    [n \in KnownNames(cdf) |->
        IF name_to_uid(cdf, n) \in list_failed THEN {} ELSE rem[name_to_uid(cdf, n)]]

\* line 35
want(row) == StripNonEmpty(Split(PyStr(OrEmpty(row.assigned)), ","))

\* lines 36-42: the operations of one row
RowOps(row, cdf, ex) ==
    LET kept == SelectSeq(want(row),
                          LAMBDA n : n \in KnownNames(cdf) /\ row.uid \notin ex[n])
    IN  [k \in 1..Len(kept) |->
           [coll_uid |-> name_to_uid(cdf, kept[k]), model_uid |-> row.uid,
            coll_name |-> kept[k]]]

\* lines 32-42
RECURSIVE PlanOps(_, _, _)
PlanOps(df, cdf, ex) ==
    IF df = <<>> THEN <<>>
    ELSE RowOps(Head(df), cdf, ex) \o PlanOps(Tail(df), cdf, ex)

\* the add loop making its calls in a dry run too
AddCalls_IgnoreDryRun(plan, dry_run, outcome) ==
    [k \in 1..Len(plan) |->
       [coll_uid |-> plan[k].coll_uid, model_uid |-> plan[k].model_uid, ok |-> outcome[k]]]

\* the add loop given up at the first call that raises
AddCalls_StopAtFailure(plan, dry_run, outcome) ==
    LET n == IF \A k \in 1..Len(plan) : outcome[k] THEN Len(plan)
             ELSE CHOOSE k \in 1..Len(plan) :
                    ~outcome[k] /\ \A j \in 1..(k - 1) : outcome[j]
    IN  IF dry_run THEN <<>>
        ELSE [k \in 1..n |->
                [coll_uid |-> plan[k].coll_uid, model_uid |-> plan[k].model_uid,
                 ok |-> outcome[k]]]

\* lines 49-55: the calls of client.add_model_to_collection, in order
AddCalls(plan, dry_run, outcome) ==
    IF dry_run THEN <<>>
    ELSE [k \in 1..Len(plan) |->
            [coll_uid |-> plan[k].coll_uid, model_uid |-> plan[k].model_uid,
             ok |-> outcome[k]]]

\* the service: a call that returns has added the model to the collection
RECURSIVE ApplyCalls(_, _)
ApplyCalls(rem, cs) ==
    IF cs = <<>> THEN rem
    ELSE LET c == Head(cs)
         IN  ApplyCalls(IF c.ok THEN [rem EXCEPT ![c.coll_uid] = @ \cup {c.model_uid}]
                        ELSE rem,
                        Tail(cs))

c_1 == <<"c","1">>

c_2 == <<"c","2">>

a_hands_feet == <<"h","a","n","d","s",","," ","f","e","e","t">>

a_hands_twice == <<"h","a","n","d","s",","," ","h","a","n","d","s">>

CollUids == {c_1, c_2}

\* the add calls of one push that raise
MaxFailures == 1

\* Collections sheets: both collections, or hands alone
CollSheets ==
    { <<[name |-> s_hands, uid |-> c_1], [name |-> s_feet, uid |-> c_2]>>,
      <<[name |-> s_hands, uid |-> c_1]>> }

\* Assigned Collection(s) cells: empty, two names, a name given twice, a
\* name that is no current collection
PushAssigned == {NaN, a_hands_feet, a_hands_twice, s_gauntlets}

PushFrames ==
    UNION {{[i \in 1..n |-> [uid |-> NatStr(i), assigned |-> f[i]]] :
              f \in [1..n -> PushAssigned]} : n \in 1..MaxItems}

\* the members the service holds: any of the first two items
RemoteChoices == [CollUids -> SUBSET {NatStr(1), NatStr(2)}]

InitPush ==
    /\ liked \in PushFrames
    /\ cols_df \in CollSheets
    /\ remote \in RemoteChoices
    /\ ops = <<>>
    /\ calls = <<>>
    /\ pushop = [op |-> "none"]
    /\ pc = "push"
    /\ terms = Terms(DocNoKeys)
    /\ horder = CHOOSE h \in HashOrders : TRUE
    /\ before = <<>>
    /\ lastop = NoOp
    /\ item = NoItem
    /\ signals = NoSignals
    /\ pr = NoResult
    /\ source = NoSource
    /\ NoBookInPlay
    /\ RestIdle

\* pipeline.py lines 98-101, push_assignments.py lines 19-55: one run of the
\* push command
Push(dry_run, list_failed) ==
    /\ pc = "push"
    /\ LET plan == PlanOps(liked, cols_df, existing(cols_df, remote, list_failed))
       IN  \E outcome \in [1..Len(plan) -> BOOLEAN] :
              /\ Cardinality({k \in 1..Len(plan) : ~outcome[k]})
                    <= (IF dry_run THEN 0 ELSE MaxFailures)
              /\ ops' = plan
              /\ calls' = AddCalls(plan, dry_run, outcome)
              /\ remote' = ApplyCalls(remote, calls')
    /\ pushop' = [op |-> "push", dry_run |-> dry_run, list_failed |-> list_failed]
    /\ pc' = "pushed"
    /\ UNCHANGED <<terms, horder, liked, before, lastop, item, signals, pr>>
    /\ UNCHANGED <<cols_df, loadVars, bookVars, restVars>>

NextPush == \E dry_run \in BOOLEAN, list_failed \in SUBSET CollUids : Push(dry_run, list_failed)

SpecPush == InitPush /\ [][NextPush]_vars

(***************************************************************************)
(* collector.py: build_workbook, and pipeline.py: cmd_auto_assign on the   *)
(* workbook it wrote.  book is the Liked Models sheet of the stored        *)
(* workbook: its header row and, per item, a cell for every header.  An    *)
(* empty cell is <<>>: openpyxl reads it as None or "", both falsy, and    *)
(* pandas reads it as NaN.                                                 *)
(***************************************************************************)
\* collector.py lines 152-155
CollectorHeaders ==
    <<"Name", "UID", "Assigned Collection", "Already In Collection(s)",
      "Auto-Assigned Collection(s)", "Suggested Collection(s)",
      "Fuzzy Matched Collection(s)", "Tags", "Author", "License", "Downloadable">>

\* auto_assign.py lines 13-16
SUG_COL == "Suggested Collection(s)"

FUZZY_COL == "Fuzzy Match Collection(s)"

ASSIGNED_COL == "Assigned Collection(s)"

NOTES_COL == "Assignment Notes"

\* collector.py lines 58-63: the value of a named column in a stored row, ""
\* when the sheet has no such column
PrevCell(bk, r, name) ==
    IF name \in Range(bk.columns) THEN bk.rows[r][name] ELSE <<>>

\* collector.py lines 55-57: row[1] is the cell under the second header
StoredUid(bk, r) == bk.rows[r][bk.columns[2]]

\* collector.py lines 43-64: per stored identifier the four columns the
\* collector reads back; a later row with the same identifier wins
_load_existing_columns(bk) ==
    IF bk.columns = <<>> THEN <<>>
    ELSE LET uids == {StoredUid(bk, r) : r \in 1..Len(bk.rows)} \ {<<>>}
             last(u) == CHOOSE r \in 1..Len(bk.rows) :
                           /\ StoredUid(bk, r) = u
                           /\ \A q \in 1..Len(bk.rows) : StoredUid(bk, q) = u => q <= r
         IN  [u \in uids |->
                [assigned  |-> PrevCell(bk, last(u), "Assigned Collection"),
                 auto      |-> PrevCell(bk, last(u), "Auto-Assigned Collection(s)"),
                 suggested |-> PrevCell(bk, last(u), "Suggested Collection(s)"),
                 fuzzy     |-> PrevCell(bk, last(u), "Fuzzy Matched Collection(s)")]]

\* collector.py lines 163-184: the row appended for one like; fresh holds
\* what _suggest_collections, _fuzzy_match_collections and _auto_assign
\* compute from the service's data
LikedRow(m, fresh, prev_cols) ==
    LET known == m.uid \in DOMAIN prev_cols
        assigned_val  == IF known THEN prev_cols[m.uid].assigned ELSE <<>>
        suggested_val == IF known THEN prev_cols[m.uid].suggested ELSE fresh.suggested
        fuzzy_val     == IF known THEN prev_cols[m.uid].fuzzy ELSE fresh.fuzzy
        auto_val      == IF known /\ prev_cols[m.uid].auto # <<>>
                         THEN prev_cols[m.uid].auto ELSE fresh.auto
    IN  [h \in Range(CollectorHeaders) |->
           CASE h = "Name" -> m.name
             [] h = "UID" -> m.uid
             [] h = "Assigned Collection" -> assigned_val
             [] h = "Auto-Assigned Collection(s)" -> auto_val
             [] h = "Suggested Collection(s)" -> suggested_val
             [] h = "Fuzzy Matched Collection(s)" -> fuzzy_val
             [] h = "Tags" -> m.tags
             [] h = "Downloadable" -> <<"N", "o">>
             [] OTHER -> <<>>]

\* collector.py lines 150-187 and 199-211: a new workbook with the
\* collector's headers and one row per like
build_workbook(bk, likes, fresh) ==
    [columns |-> CollectorHeaders,
     rows    |-> [i \in 1..Len(likes) |->
                    LikedRow(likes[i], fresh, _load_existing_columns(bk))]]

\* data_io.py lines 95-101: pandas reads an empty cell as NaN
ReadCell(v) == IF v = <<>> THEN NaN ELSE v

\* data_io.py lines 59-61: to_excel leaves the cell of a NaN or "" empty
WriteCell(v) == IF IsNa(v) THEN <<>> ELSE v

\* row.get(col) on the frame read from the sheet: None for a column the
\* sheet lacks
FrameCell(bk, r, name) ==
    IF name \in Range(bk.columns) THEN ReadCell(bk.rows[r][name]) ELSE None

\* auto_assign.py lines 35-37 and 48: the row the runner sees; the sheet the
\* collector writes has Name and UID, not Model Name, Description, Model UID
FrameRow(bk, r) ==
    Row(FrameCell(bk, r, "Model Name"), FrameCell(bk, r, "Description"),
        FrameCell(bk, r, "Tags"), FrameCell(bk, r, ASSIGNED_COL),
        FrameCell(bk, r, NOTES_COL))

read_workbook(bk) == [r \in 1..Len(bk.rows) |-> FrameRow(bk, r)]

\* a frame column assignment: an existing column keeps its place, a new one
\* is appended
WithColumn(headers, name) ==
    IF name \in Range(headers) THEN headers ELSE Append(headers, name)

\* auto_assign.py lines 59-62
RunnerHeaders(headers) ==
    WithColumn(WithColumn(WithColumn(WithColumn(headers, SUG_COL), FUZZY_COL),
                          ASSIGNED_COL), NOTES_COL)

\* data_io.py line 39: the workbook on disk follows the pipeline schema
CarriesForward(bk) == "Model UID" \in Range(bk.columns)

\* data_io.py lines 45-50
carry_cols == {SUG_COL, FUZZY_COL, ASSIGNED_COL, NOTES_COL}

\* data_io.py lines 51-55: prev_idx[col].to_dict() keeps, for a Model UID,
\* the cell of the last stored row that has it
PrevByUid(bk, uid, h) ==
    LET hits == {r \in 1..Len(bk.rows) : bk.rows[r]["Model UID"] = uid}
        last == CHOOSE r \in hits : \A q \in hits : q <= r
    IN  bk.rows[last][h]

\* data_io.py lines 19-63 on the frame the runner returned, bk being the
\* workbook on disk the frame was read from: with a Model UID column the
\* four annotation columns the stored sheet already has are mapped back from
\* the stored sheet over the frame's values
write_workbook(bk, out) ==
    [columns |-> RunnerHeaders(bk.columns),
     rows    |-> [r \in 1..Len(bk.rows) |->
                    [h \in Range(RunnerHeaders(bk.columns)) |->
                       CASE /\ CarriesForward(bk)
                            /\ h \in carry_cols
                            /\ h \in Range(bk.columns)
                              -> PrevByUid(bk, bk.rows[r]["Model UID"], h)
                         [] h = SUG_COL -> WriteCell(out[r].sug)
                         [] h = FUZZY_COL -> WriteCell(out[r].fuzzy)
                         [] h = ASSIGNED_COL -> WriteCell(out[r].assigned)
                         [] h = NOTES_COL -> WriteCell(out[r].notes)
                         [] OTHER -> bk.rows[r][h]]]]

u_1 == <<"u", "1">>

u_2 == <<"u", "2">>

\* the likes the service reports
Likes ==
    { [uid |-> u_1, name |-> n_mecha_unit, tags |-> t_robot],
      [uid |-> u_2, name |-> n_mech, tags |-> <<>>] }

LikesChoices ==
    {<<>>} \cup {<<m>> : m \in Likes}
           \cup {<<m, n>> : <<m, n>> \in {p \in Likes \X Likes : p[1] # p[2]}}

\* what the collector computes for a like from the service's collections
FreshChoices ==
    { [suggested |-> <<>>, fuzzy |-> <<>>, auto |-> <<>>],
      [suggested |-> s_robots, fuzzy |-> s_robots, auto |-> s_robots] }

InitCollect ==
    /\ terms = Terms(DocA)
    /\ horder \in HashOrders
    /\ liked = <<>>
    /\ before = <<>>
    /\ lastop = NoOp
    /\ item = NoItem
    /\ signals = NoSignals
    /\ pr = NoResult
    /\ pc = "idle"
    /\ source = NoSource
    /\ NoPush
    /\ NoBookInPlay
    /\ RestIdle

\* pipeline.py lines 40-43
Collect(likes, fresh) ==
    /\ book' = build_workbook(book, likes, fresh)
    /\ bookop' = [op |-> "collect"]
    /\ UNCHANGED <<coreVars, loadVars, pushVars, restVars>>

\* pipeline.py lines 89-95; read_workbook raises when there is no workbook
AutoAssignBook(overwrite) ==
    /\ book # NoBook
    /\ ~RunRaises(read_workbook(book))
    /\ book' = write_workbook(book,
                  run_auto_assign(read_workbook(book), terms, overwrite, horder))
    /\ bookop' = [op |-> "auto_assign", overwrite |-> overwrite]
    /\ UNCHANGED <<coreVars, loadVars, pushVars, restVars>>

NextCollect ==
    \/ \E likes \in LikesChoices, fresh \in FreshChoices : Collect(likes, fresh)
    \/ \E overwrite \in BOOLEAN : AutoAssignBook(overwrite)

SpecCollect == InitCollect /\ [][NextCollect]_vars

(***************************************************************************)
(* Specification of the pipeline commands on a workbook already on disk:   *)
(* match and auto-assign read the Liked sheet, run the runner and write    *)
(* the sheet back.  The workbook follows the pipeline schema (Model UID,   *)
(* Model Name, ...) or is the sheet the collector wrote.                   *)
(***************************************************************************)
PipelineHeaders == <<"Model UID", "Model Name", "Description", "Tags">>

AnnotationHeaders == <<SUG_COL, FUZZY_COL, ASSIGNED_COL, NOTES_COL>>

PipelineRow(uid, name, desc, tags, sug, assigned) ==
    [h \in Range(PipelineHeaders) \cup carry_cols |->
       CASE h = "Model UID" -> uid
         [] h = "Model Name" -> name
         [] h = "Description" -> desc
         [] h = "Tags" -> tags
         [] h = SUG_COL -> sug
         [] h = ASSIGNED_COL -> assigned
         [] OTHER -> <<>>]

\* a pipeline-schema sheet of two liked models; annotated tells whether the
\* sheet already has the four annotation columns
PipelineSheet(annotated, sug, assigned) ==
    LET headers == IF annotated THEN PipelineHeaders \o AnnotationHeaders
                   ELSE PipelineHeaders
        full == <<PipelineRow(u_1, n_mecha_unit, n_mech, t_robot, sug, <<>>),
                  PipelineRow(u_2, n_hands_foot, d_foot, <<>>, <<>>, assigned)>>
    IN  [columns |-> headers,
         rows    |-> [r \in 1..2 |-> [h \in Range(headers) |-> full[r][h]]]]

\* the workbooks on disk the commands start from
BookChoices ==
    {PipelineSheet(FALSE, <<>>, <<>>)}
    \cup {PipelineSheet(TRUE, sug, assigned) :
             sug \in {<<>>, s_hands}, assigned \in {<<>>, s_hands}}
    \cup {build_workbook(NoBook, likes, fresh) :
             likes \in LikesChoices \ {<<>>}, fresh \in FreshChoices}

InitBook ==
    /\ terms = Terms(DocA)
    /\ horder \in HashOrders
    /\ liked = <<>>
    /\ before = <<>>
    /\ lastop = NoOp
    /\ item = NoItem
    /\ signals = NoSignals
    /\ pr = NoResult
    /\ pc = "idle"
    /\ source = NoSource
    /\ NoPush
    /\ book \in BookChoices
    /\ bookop = [op |-> "none"]
    /\ RestIdle

\* pipeline.py lines 77-82: the frame cmd_match hands to write_workbook
MatchFrame(bk, t, order) ==
    LET liked_df == read_workbook(bk)
        updated == run_auto_assign(liked_df, t, FALSE, order)
    IN  [r \in 1..Len(updated) |->
           [updated[r] EXCEPT
              !.assigned = IF ASSIGNED_COL \in Range(bk.columns)
                           THEN liked_df[r].assigned ELSE @,
              !.notes = IF NOTES_COL \in Range(bk.columns)
                        THEN liked_df[r].notes ELSE @]]

\* pipeline.py lines 72-86
MatchBook ==
    /\ book # NoBook
    /\ ~RunRaises(read_workbook(book))
    /\ book' = write_workbook(book, MatchFrame(book, terms, horder))
    /\ bookop' = [op |-> "match"]
    /\ UNCHANGED <<coreVars, loadVars, pushVars, restVars>>

NextBook ==
    \/ MatchBook
    \/ \E overwrite \in BOOLEAN : AutoAssignBook(overwrite)

SpecBook == InitBook /\ [][NextBook]_vars

(***************************************************************************)
(* legacy/main_long.py: the desktop app.  app_df is state.liked_df, the    *)
(* frame read from the sheet the collector wrote, with the columns Manual, *)
(* Push Sent and Pushed At added and Assigned Collection and Fuzzy Matched *)
(* Collection(s) renamed to the runner's names; manual_edits is            *)
(* state.manual_edits, the text typed into the Manual fields per UID.      *)
(***************************************************************************)
\* lines 191-207 on the frame read_workbook returns: one row of
\* state.liked_df; dname is the Name column, name the Model Name column
AppRow(bk, r) ==
    [uid       |-> FrameCell(bk, r, "UID"),
     dname     |-> FrameCell(bk, r, "Name"),
     name      |-> FrameCell(bk, r, "Model Name"),
     desc      |-> FrameCell(bk, r, "Description"),
     tags      |-> FrameCell(bk, r, "Tags"),
     auto      |-> FrameCell(bk, r, "Auto-Assigned Collection(s)"),
     sug       |-> FrameCell(bk, r, SUG_COL),
     fuzzy     |-> IF FUZZY_COL \in Range(bk.columns)
                   THEN FrameCell(bk, r, FUZZY_COL)
                   ELSE FrameCell(bk, r, "Fuzzy Matched Collection(s)"),
     assigned  |-> IF ASSIGNED_COL \in Range(bk.columns)
                   THEN FrameCell(bk, r, ASSIGNED_COL)
                   ELSE FrameCell(bk, r, "Assigned Collection"),
     notes     |-> FrameCell(bk, r, NOTES_COL),
     manual    |-> <<>>,
     push_sent |-> FALSE,
     pushed_at |-> <<>>]

\* lines 210-240: Manual, Push Sent and Pushed At of the previous frame,
\* by UID, on the fresh frame; the defaults for a UID it did not hold
merge_preserve(prev, fresh) ==
    IF fresh = <<>> \/ prev = <<>> THEN fresh
    ELSE [i \in 1..Len(fresh) |->
            IF \E j \in 1..Len(prev) : prev[j].uid = fresh[i].uid
            THEN LET p == prev[CHOOSE j \in 1..Len(prev) : prev[j].uid = fresh[i].uid]
                 IN  [fresh[i] EXCEPT !.manual = p.manual,
                                      !.push_sent = p.push_sent,
                                      !.pushed_at = p.pushed_at]
            ELSE [fresh[i] EXCEPT !.manual = <<>>, !.push_sent = FALSE,
                                  !.pushed_at = <<>>]]

\* the header row of the sheet written from state.liked_df
AppHeaders(df) ==
    <<"Name", "UID", "Already In Collection(s)", "Auto-Assigned Collection(s)",
      "Suggested Collection(s)", "Tags", "Author", "License", "Downloadable",
      "Manual", "Push Sent", "Pushed At", "Assigned Collection(s)",
      "Fuzzy Match Collection(s)">>
    \o (IF \E i \in 1..Len(df) : df[i].notes # None THEN <<NOTES_COL>> ELSE <<>>)

\* str(bool)
BoolCell(b) == IF b THEN <<"T","r","u","e">> ELSE <<"F","a","l","s","e">>

\* data_io.py lines 19-63 on state.liked_df: the sheet has no Model UID
\* column, so nothing is brought forward
AppSheet(df) ==
    IF df = <<>> THEN [columns |-> <<>>, rows |-> <<>>]
    ELSE [columns |-> AppHeaders(df),
          rows    |-> [r \in 1..Len(df) |->
                        [h \in Range(AppHeaders(df)) |->
                           CASE h = "Name" -> WriteCell(df[r].dname)
                             [] h = "UID" -> WriteCell(df[r].uid)
                             [] h = "Auto-Assigned Collection(s)" -> WriteCell(df[r].auto)
                             [] h = SUG_COL -> WriteCell(df[r].sug)
                             [] h = "Tags" -> WriteCell(df[r].tags)
                             [] h = "Downloadable" -> <<"N", "o">>
                             [] h = "Manual" -> WriteCell(df[r].manual)
                             [] h = "Push Sent" -> BoolCell(df[r].push_sent)
                             [] h = "Pushed At" -> WriteCell(df[r].pushed_at)
                             [] h = ASSIGNED_COL -> WriteCell(df[r].assigned)
                             [] h = FUZZY_COL -> WriteCell(df[r].fuzzy)
                             [] h = NOTES_COL -> WriteCell(df[r].notes)
                             [] OTHER -> <<>>]]]

s_none == <<"n","o","n","e">>

s_nan == <<"n","a","n">>

\* lines 89-95: series_nonempty on one cell
series_nonempty(x) ==
    /\ ~IsNa(x)
    /\ Lower(Strip(x)) \notin {<<>>, s_none, s_nan, <<"<","n","a",">">>}

\* lines 818-827 with every buffered value, blank or not, written to
\* Assigned Collection(s)
ApplyManualRow_BlankToo(row, edits) ==
    IF row.uid \in DOMAIN edits
    THEN [row EXCEPT !.manual = edits[row.uid], !.assigned = Strip(edits[row.uid])]
    ELSE row

\* lines 818-827: the buffered value of the row's UID goes to Manual and,
\* stripped, to Assigned Collection(s) when it is not blank
ApplyManualRow(row, edits) ==
    IF row.uid \in DOMAIN edits
    THEN [row EXCEPT !.manual = edits[row.uid],
                     !.assigned = IF Strip(edits[row.uid]) # <<>>
                                  THEN Strip(edits[row.uid]) ELSE @]
    ELSE row

\* lines 767-768: the rows with an assignment
RowsToPush(df) == SelectSeq(df, LAMBDA row : series_nonempty(row.assigned))

\* the text of the clock when the push ended
PushedAtNow == <<"n","o","w">>

\* lines 787-791: after a push that was no dry run every row with an
\* assignment is marked
MarkPushed(df, dry_run, cs) ==
    IF dry_run THEN df
    ELSE [i \in 1..Len(df) |->
            IF series_nonempty(df[i].assigned)
            THEN [df[i] EXCEPT !.push_sent = TRUE, !.pushed_at = PushedAtNow]
            ELSE df[i]]

s_padded_feet == <<" ","f","e","e","t"," ">>

\* what the user types into a Manual field: blanks, or a name with blanks
\* around it
ManualValues == {<<" ">>, s_padded_feet}

\* the likes the service reports to the app, and what the collector computes
\* for them
AppLikesChoices == {<<m>> : m \in {x \in Likes : x.uid = u_1}} \cup {<<m, n>> : <<m, n>> \in {p \in Likes \X Likes : p[1].uid = u_1 /\ p[2].uid = u_2}}

AppFresh == [suggested |-> <<>>, fuzzy |-> <<>>, auto |-> <<>>]

\* the Collections sheet of the app
AppCollSheet == <<[name |-> s_robots, uid |-> c_1], [name |-> s_hands, uid |-> c_2]>>

AppRemoteChoices == {[c \in CollUids |-> {}]}

\* lines 594-606: the app starts with no workbook
InitApp ==
    /\ terms = Terms(DocA)
    /\ horder = CHOOSE h \in HashOrders : TRUE
    /\ liked = <<>>
    /\ before = <<>>
    /\ lastop = NoOp
    /\ item = NoItem
    /\ signals = NoSignals
    /\ pr = NoResult
    /\ pc = "idle"
    /\ source = NoSource
    /\ cols_df = AppCollSheet
    /\ remote \in AppRemoteChoices
    /\ ops = <<>>
    /\ calls = <<>>
    /\ pushop = [op |-> "none"]
    /\ book = NoBook
    /\ bookop = [op |-> "none"]
    /\ app_df = <<>>
    /\ manual_edits = <<>>
    /\ appop = [op |-> "none"]
    /\ pairs = <<>>
    /\ mergeop = [op |-> "none"]
    /\ sent = <<>>
    /\ request = [state |-> "idle"]
    /\ busy = FALSE
    /\ handlers = <<>>

AppFrame == <<coreVars, loadVars, mergeVars, reqVars, busyVars, cols_df, pushop, bookop>>

\* a handler that sends nothing to the service
NoCalls ==
    /\ ops' = <<>>
    /\ calls' = <<>>
    /\ UNCHANGED remote

\* lines 376-381: the on_change handler of a row's Manual field
AppEdit(u, val) ==
    /\ \E i \in 1..Len(app_df) : app_df[i].uid = u
    /\ manual_edits' = [x \in DOMAIN manual_edits \cup {u} |->
                          IF x = u THEN val ELSE manual_edits[x]]
    /\ appop' = [op |-> "edit"]
    /\ NoCalls
    /\ UNCHANGED <<AppFrame, app_df, book>>

\* lines 814-838
AppApplyManual ==
    /\ app_df # <<>>
    /\ app_df' = [i \in 1..Len(app_df) |-> ApplyManualRow(app_df[i], manual_edits)]
    /\ appop' = [op |-> "apply_manual"]
    /\ NoCalls
    /\ UNCHANGED <<AppFrame, manual_edits, book>>

\* lines 700-729 (overwrite = FALSE) and 731-754: run, merge_preserve,
\* write_workbook
AppRun(op, overwrite) ==
    /\ app_df # <<>>
    /\ ~RunRaises(app_df)
    /\ app_df' = merge_preserve(app_df, run_auto_assign(app_df, terms, overwrite, horder))
    /\ book' = AppSheet(app_df')
    /\ appop' = [op |-> op]
    /\ NoCalls
    /\ UNCHANGED <<AppFrame, manual_edits>>

AppMatch == AppRun("match", FALSE)

AppAuto(overwrite) == AppRun("auto_assign", overwrite)

\* lines 756-812
AppPush(dry_run, list_failed) ==
    /\ LET plan == PlanOps(RowsToPush(app_df), cols_df,
                           existing(cols_df, remote, list_failed))
       IN  \E outcome \in [1..Len(plan) -> BOOLEAN] :
              /\ Cardinality({k \in 1..Len(plan) : ~outcome[k]})
                    <= (IF dry_run THEN 0 ELSE MaxFailures)
              /\ ops' = plan
              /\ calls' = AddCalls(plan, dry_run, outcome)
              /\ remote' = ApplyCalls(remote, calls')
    /\ app_df' = MarkPushed(app_df, dry_run, calls')
    /\ book' = IF dry_run THEN book ELSE AppSheet(app_df')
    /\ appop' = [op |-> "push", dry_run |-> dry_run]
    /\ UNCHANGED <<AppFrame, manual_edits>>

\* lines 840-841 and 633-647
AppSave ==
    /\ book' = AppSheet(app_df)
    /\ appop' = [op |-> "save"]
    /\ NoCalls
    /\ UNCHANGED <<AppFrame, app_df, manual_edits>>

\* lines 650-698: build_workbook, read_workbook, merge_preserve
AppCollect(likes, fresh) ==
    /\ book' = build_workbook(book, likes, fresh)
    /\ app_df' = merge_preserve(app_df, [r \in 1..Len(likes) |-> AppRow(book', r)])
    /\ appop' = [op |-> "collect"]
    /\ NoCalls
    /\ UNCHANGED <<AppFrame, manual_edits>>

NextApp ==
    \/ \E val \in ManualValues : AppEdit(u_1, val)
    \/ AppEdit(u_2, s_hands)
    \/ AppApplyManual
    \/ AppMatch
    \/ \E overwrite \in BOOLEAN : AppAuto(overwrite)
    \/ \E dry_run \in BOOLEAN : AppPush(dry_run, {})
    \/ AppSave
    \/ \E likes \in AppLikesChoices : AppCollect(likes, AppFresh)

SpecApp == InitApp /\ [][NextApp]_vars

(***************************************************************************)
(* Properties of the runner (specification Spec)                           *)
(***************************************************************************)
\* the last step was a run that returned a frame
RunDone == lastop.op = "auto_assign" /\ ~lastop.raised

Rows == 1..Len(liked)

\* a cell that holds more than blanks
NonEmptyCell(x) == ~IsNa(x) /\ Strip(x) # <<>>

\* the collection names a cell lists, separated by "," or ";"
NamesIn(x) == IF IsNa(x) THEN <<>> ELSE StripNonEmpty(Split(Replace(x, ";", ","), ","))

\* what the Policy Engine assigns to a row for the current signals
WouldAssign(row) == policy_assign(RowSignals(row, terms), terms, horder).assigned

C2_SecondRunNoOp ==
    (RunDone /\ lastop.streak >= 2) =>
        \A i \in Rows :
            /\ liked[i].assigned = before[i].assigned
            /\ liked[i].notes = before[i].notes

(***************************************************************************)
(* Properties of the Policy Engine (specifications SpecPolicy, SpecSignals)*)
(***************************************************************************)
PolicyDone == pc = "done"

\* the score signals records for a collection's fuzzy hit
FuzzyScoreOf(c) == (CHOOSE h \in Range(signals.fuzzy_hits) : h.name = c).score

HasFuzzy(c) == \E h \in Range(signals.fuzzy_hits) : h.name = c

\* one vote for each of tag hit, rule hit and fuzzy hit
VoteCount(c) ==
    Cardinality({k \in {"tag", "rule", "fuzzy"} :
        \/ k = "tag" /\ c \in signals.tag_hits
        \/ k = "rule" /\ c \in signals.rule_hits
        \/ k = "fuzzy" /\ HasFuzzy(c)})

\* P: the collections provisionally assigned
ProvisionalSet ==
    {c \in CollNames :
        \/ VoteCount(c) >= 2
        \/ HasFuzzy(c) /\ FuzzyScoreOf(c).num >= 95 * FuzzyScoreOf(c).den}

SinglesOfP == ProvisionalSet \cap terms.single

Ascending(seq) == \A i, j \in 1..Len(seq) : i < j => StrLess(seq[i], seq[j])

HasCollisionNote == Contains(COLLISION_PREFIX, pr.notes)

HasFallbackNote == Contains(FALLBACK_PREFIX, pr.notes)

\* C3: whenever two or more single-assignment collections are provisionally
\* assigned, the assigned list holds none of them and the notes name every
\* one of them.
C3_CollisionLaw ==
    (PolicyDone /\ Cardinality(SinglesOfP) >= 2) =>
        \A c \in SinglesOfP :
            /\ c \notin Range(pr.assigned)
            /\ Contains(c, pr.notes)
            /\ HasCollisionNote

\* C3 witness: policy_assign has returned for signals that provisionally
\* assign two single-assignment collections.
C3_Witness ==
    /\ PolicyDone
    /\ Cardinality(SinglesOfP) = 2
    /\ pr.assigned = <<>>

\* C4: the assigned list is, ascending by name and without duplicates,
\* exactly P minus the single-assignment members of P when P holds more than
\* one of them; one single-assignment member alone is kept, and a collision
\* removes no collection outside the single-assignment set.
C4_AssignedIsPMinusCollision ==
    PolicyDone =>
        /\ Range(pr.assigned) = IF Cardinality(SinglesOfP) > 1
                                THEN ProvisionalSet \ SinglesOfP
                                ELSE ProvisionalSet
        /\ Ascending(pr.assigned)

\* C4 witness: a collision of two single-assignment collections next to an
\* assigned collection outside the single-assignment set, which is kept.
C4_Witness ==
    /\ PolicyDone
    /\ Cardinality(SinglesOfP) = 2
    /\ Len(pr.assigned) = 1

\* the fuzzy hits of the highest score
TopScored ==
    {h \in Range(signals.fuzzy_hits) :
        \A g \in Range(signals.fuzzy_hits) : ScoreGeq(h.score, g.score)}

\* the notes end with the fallback note citing hit h, and hold no other
\* fallback note
CitesOnly(h) ==
    LET note == FallbackNote(h)
        n    == Len(pr.notes)
    IN  /\ Len(note) <= n
        /\ SubSeq(pr.notes, n - Len(note) + 1, n) = note
        /\ ~Contains(FALLBACK_PREFIX, SubSeq(pr.notes, 1, n - Len(note)))

C10_OneNoteType == PolicyDone => ~(HasCollisionNote /\ HasFallbackNote)

\* C10 amended: a fallback note appears only with an empty assigned list;
\* the notes hold both a collision note and a fallback note exactly when the
\* collision removed every provisionally assigned collection and there is a
\* fuzzy hit, and then the collision note comes first.
C10_BothNotesOnEmptyingCollision ==
    PolicyDone =>
        /\ HasFallbackNote => pr.assigned = <<>>
        /\ (HasCollisionNote /\ HasFallbackNote) <=>
               /\ Cardinality(SinglesOfP) >= 2
               /\ ProvisionalSet = SinglesOfP
               /\ signals.fuzzy_hits # <<>>
        /\ (HasCollisionNote /\ HasFallbackNote) =>
               SubSeq(pr.notes, 1, Len(COLLISION_PREFIX)) = COLLISION_PREFIX

\* C10 witness: a collision that emptied the assigned list, with a fuzzy
\* hit: both notes are written.
C10_Witness ==
    /\ PolicyDone
    /\ HasCollisionNote
    /\ HasFallbackNote
    /\ signals.fuzzy_hits # <<>>
    /\ Cardinality(SinglesOfP) = 3

(***************************************************************************)
(* Properties of the Signal Collector (specification SpecSignals)          *)
(***************************************************************************)
Collected == pc \in {"collected", "done"}

\* the normalized text of the item: name, description and tags
ItemText == normalize_text(<<item.name, item.desc, Join(item.tags, <<",">>)>>)

NegativeInText == \E nt \in terms.negative : Contains(nt, ItemText)

\* C5: an item whose normalized text contains a configured negative term
\* gets no tag hit, no rule hit and no fuzzy hit, for any collection.
C5_NegativeSuppression ==
    (Collected /\ NegativeInText) =>
        /\ signals.tag_hits = {}
        /\ signals.rule_hits = {}
        /\ signals.fuzzy_hits = <<>>

\* C5 witness: signals were collected for an item that contains a negative
\* term and that the rules match once the negative terms are taken away.
C5_Witness ==
    /\ Collected
    /\ NegativeInText
    /\ LET sig == collect_signals(item.name, item.desc, item.tags,
                                  [terms EXCEPT !.negative = {}])
       IN  sig.tag_hits # {} /\ sig.rule_hits # {} /\ sig.fuzzy_hits # <<>>

\* Scenario A: collection robots with include_terms robot and mech,
\* tag_terms robot and threshold 88; item "Mecha Unit" tagged robot, scifi
ScenarioA ==
    /\ terms = Terms(DocA)
    /\ item = [name |-> n_mecha_unit, desc |-> <<>>, tags |-> <<s_robot, s_scifi>>]

\* C7 as stated: in Scenario A collect_signals gives robots a tag hit and no
\* rule hit, robots has exactly 1 vote and policy_assign does not assign it.
C7_ScenarioA_OneVote ==
    (ScenarioA /\ PolicyDone) =>
        /\ signals.tag_hits = {s_robots}
        /\ signals.rule_hits = {}
        /\ VoteCount(s_robots) = 1
        /\ pr.assigned = <<>>

\* C7 amended: in Scenario A collect_signals gives robots a tag hit, a rule
\* hit (the tags are part of the normalized text, so the token robot is
\* present) and a fuzzy hit of score 100 (robot and mech are substrings of
\* the text), so robots has 3 votes and policy_assign assigns it.
C7_ScenarioA_Assigned ==
    (ScenarioA /\ PolicyDone) =>
        /\ signals.tag_hits = {s_robots}
        /\ signals.rule_hits = {s_robots}
        /\ signals.fuzzy_hits = <<[name |-> s_robots, score |-> IntScore(100)]>>
        /\ VoteCount(s_robots) = 3
        /\ pr.assigned = <<s_robots>>
        /\ pr.notes = <<>>

\* C7 witness: Scenario A has gone through collect_signals and policy_assign.
C7_Witness == ScenarioA /\ PolicyDone /\ s_robots \in signals.tag_hits

\* C8 as stated: a rule not skipped by a negative or exclude term has a
\* fuzzy hit if and only if the largest similarity score of its include
\* terms against the normalized text is at least the rule's threshold, and
\* the recorded score is that largest score.
C8_FuzzyHitIffMaxAtLeastThreshold ==
    Collected =>
        \A k \in 1..Len(terms.collections) :
            LET cfg     == terms.collections[k]
                inc     == IF "include_terms" \in cfg.has
                           THEN {Lower(t) : t \in cfg.include_terms} ELSE {}
                exc     == IF "exclude_terms" \in cfg.has
                           THEN {Lower(t) : t \in cfg.exclude_terms} ELSE {}
                thr     == IF "fuzzy_threshold" \in cfg.has
                           THEN cfg.fuzzy_threshold ELSE 88
                scores  == {partial_ratio(t, ItemText) : t \in inc}
                skipped == NegativeInText \/ \E et \in exc : Contains(et, ItemText)
            IN  ~skipped =>
                  /\ HasFuzzy(cfg.name) <=> \E sc \in scores : sc.num >= thr * sc.den
                  /\ HasFuzzy(cfg.name) =>
                        /\ FuzzyScoreOf(cfg.name) \in scores
                        /\ \A sc \in scores : ScoreGeq(FuzzyScoreOf(cfg.name), sc)

(***************************************************************************)
(* Properties of the runner on negative terms (specification Spec)         *)
(***************************************************************************)
\* the normalized text run_auto_assign matches a row on
RowText(row) ==
    normalize_text(<<OrEmpty(row.name), OrEmpty(row.desc), Join(RowTags(row), <<",">>)>>)

SameSignals(a, b) ==
    /\ a.tag_hits = b.tag_hits
    /\ a.rule_hits = b.rule_hits
    /\ Range(a.fuzzy_hits) = Range(b.fuzzy_hits)

\* the same Term Configuration with its collection rules listed in another order
Reorderings(t) == {[t EXCEPT !.collections = p] : p \in Perms(Range(t.collections))}

\* C11 as stated: evaluating collect_signals and policy_assign again on the
\* same item and the same Term Configuration, with the collection rules
\* listed in any other order and the sets iterated in any other order,
\* returns the same Match Signals and the same Policy Result.
C11_OrderIndependent ==
    PolicyDone =>
        \A t2 \in Reorderings(terms), h \in HashOrders :
            LET s2 == collect_signals(item.name, item.desc, item.tags, t2)
            IN  /\ SameSignals(s2, signals)
                /\ policy_assign(s2, t2, h) = pr

(***************************************************************************)
(* Properties of the runner's four annotation fields (specification Spec)  *)
(***************************************************************************)
\* the Policy Result of a row's current signals, in this process
FreshResult(row) == policy_assign(RowSignals(row, terms), terms, horder)

\* a step that is a completed run of run_auto_assign
RunStep == horder' = horder /\ lastop'.op = "auto_assign" /\ ~lastop'.raised

\* C12: a run gives every item that had no prior assignment, and every item
\* when overwrite is true, for assigned-collections the ", "-joined assigned
\* list and for assignment-notes the notes of the Policy Result of its
\* current signals, whatever it held before.
C12_FreshResultReplaces ==
    [][RunStep =>
        \A i \in Rows :
            (lastop'.overwrite \/ NamesIn(liked[i].assigned) = <<>>) =>
                /\ liked'[i].assigned = Join(FreshResult(liked[i]).assigned, <<",", " ">>)
                /\ liked'[i].notes = FreshResult(liked[i]).notes]_vars

\* C12 witness: an overwriting run has replaced a hand-made assignment and
\* its notes by a different fresh result.
C12_Witness ==
    /\ RunDone
    /\ lastop.overwrite
    /\ \E i \in Rows :
          /\ NamesIn(before[i].assigned) # <<>>
          /\ NonEmptyCell(before[i].notes)
          /\ liked[i].assigned # before[i].assigned
          /\ liked[i].notes # before[i].notes
          /\ liked[i].notes # <<>>

\* the entries of a ", "-joined cell
CellParts(x) == StripNonEmpty(Split(x, ","))

\* a cell is its entries joined by ", "
CommaJoined(x) == x = Join(CellParts(x), <<",", " ">>)

\* the name and the score text of a "name:score" entry
EntryName(e) == Split(e, ":")[1]

EntryScore(e) == Join(Tail(Split(e, ":")), <<":">>)

\* a cell read back: its entries, whether it is their ", "-join, and the
\* name and score text of each entry
ParsedCell(x) ==
    LET parts == CellParts(x)
    IN  [parts   |-> parts,
         joined  |-> CommaJoined(x),
         names   |-> [k \in 1..Len(parts) |-> EntryName(parts[k])],
         entries |-> {<<EntryName(e), EntryScore(e)>> : e \in Range(parts)}]

\* the diagnostics cells of the bounded rows, read back once
ParsedCellTable ==
    {<<x, ParsedCell(x)>> :
       x \in UNION {{SugCell(p[2]), FuzzyCell(p[2])} : p \in RowSignalsTable}}

Parsed(x) ==
    IF \E p \in ParsedCellTable : p[1] = x
    THEN (CHOOSE p \in ParsedCellTable : p[1] = x)[2]
    ELSE ParsedCell(x)

\* C13: a run gives every item, whatever the overwrite flag and its prior
\* assignment, for suggested-collections the ascending ", "-joined names of
\* its current tag hits and rule hits, and for fuzzy-diagnostics one
\* "name:score" entry per current fuzzy hit, ascending by collection name
\* and ", "-joined.
C13_DiagnosticsAlwaysWritten ==
    [][RunStep =>
        \A i \in Rows :
            LET sig   == RowSignals(liked[i], terms)
                sug   == Parsed(liked'[i].sug)
                fuzzy == Parsed(liked'[i].fuzzy)
            IN  /\ sug.joined
                /\ Ascending(sug.parts)
                /\ Range(sug.parts) = sig.tag_hits \cup sig.rule_hits
                /\ fuzzy.joined
                /\ Ascending(fuzzy.names)
                /\ fuzzy.entries
                     = {<<h.name, FormatScore(h.score)>> : h \in Range(sig.fuzzy_hits)}]_vars

\* C13 witness: a run with overwrite=false has passed over an item assigned
\* by hand, kept its assignment, and written two suggested collections and
\* two fuzzy entries.
C13_Witness ==
    /\ RunDone
    /\ ~lastop.overwrite
    /\ \E i \in Rows :
          /\ NamesIn(before[i].assigned) # <<>>
          /\ NamesIn(liked[i].assigned) = NamesIn(before[i].assigned)
          /\ before[i].sug # liked[i].sug
          /\ Len(CellParts(liked[i].sug)) = 2
          /\ Len(CellParts(liked[i].fuzzy)) = 2

\* C14: a run leaves the item set it was given holding the values it held
\* before the call, and returns an item set with the same items in the same
\* order that differs from it in nothing but the four annotation fields.
C14_InputKeptResultAligned ==
    [][RunStep =>
        /\ before' = liked
        /\ Len(liked') = Len(liked)
        /\ \A i \in Rows :
              /\ liked'[i].uid = liked[i].uid
              /\ liked'[i].name = liked[i].name
              /\ liked'[i].desc = liked[i].desc
              /\ liked'[i].tags = liked[i].tags]_vars

\* C14 witness: a run over two items has returned an item set whose
\* annotation fields differ from those of the item set it was given.
C14_Witness ==
    /\ RunDone
    /\ Len(liked) >= 2
    /\ \E i \in Rows :
          /\ liked[i].assigned # before[i].assigned
          /\ liked[i].sug # before[i].sug

(***************************************************************************)
(* Items with missing fields (specification Spec)                          *)
(***************************************************************************)
\* C15 as stated: no run of the Assignment Runner is aborted by an item
\* whose name, description or tags cell is missing or empty; the run returns
\* a result for every item.
C15_MissingFieldNeverAborts ==
    lastop.op = "auto_assign" =>
        /\ ~lastop.raised
        /\ Len(liked) = Len(before)

(***************************************************************************)
(* Loading the Term Configuration (specification SpecLoad)                 *)
(***************************************************************************)
Loaded == pc \in {"loaded", "matched", "match_failed"}

\* the mapping the terms were built from
LoadedDoc == IF source.kind = "empty" THEN DocNoKeys ELSE source.doc

\* the file cannot be read as a mapping of the expected shape
MalformedSource ==
    \/ source.kind \in {"missing", "invalid", "sequence"}
    \/ source.kind = "mapping" /\ source.doc \in MalformedDocs

\* every absent optional field has its default
DefaultsApplied ==
    LET d == LoadedDoc
    IN  /\ "single_assignment_collections" \notin d.has => terms.single = {}
        /\ "negative_terms" \notin d.has => terms.negative = {}
        /\ "collections" \notin d.has => terms.collections = <<>>
        /\ \A i \in 1..Len(terms.collections) :
              LET cfg == terms.collections[i]
              IN  /\ "include_terms" \notin cfg.has => include_terms(cfg) = {}
                  /\ "tag_terms" \notin cfg.has => tag_terms(cfg) = {}
                  /\ "exclude_terms" \notin cfg.has => exclude_terms(cfg) = {}
                  /\ "fuzzy_threshold" \notin cfg.has => threshold(cfg) = 88

\* C16 as stated: a loaded Term Configuration has every absent optional
\* field at its default (empty set, threshold 88), and a malformed or
\* unreadable configuration makes the load fail, so that it is never loaded
\* and no item is matched with it.
C16_DefaultsAndFailFast ==
    /\ Loaded => DefaultsApplied
    /\ MalformedSource => pc \in {"load", "load_failed"}

(***************************************************************************)
(* Properties of push (specification SpecPush)                             *)
(***************************************************************************)
\* a step that is a call of push
PushStep == pushop'.op = "push"

\* the collection names an item's assigned-collections value lists
NamedBy(row) == Range(want(row))

\* the pairs (item, collection) that call for an add: the collection is
\* named by the item, is a current collection and does not hold the item
PairsToAdd ==
    {<<i, n>> \in (1..Len(liked)) \X KnownNames(cols_df) :
        /\ n \in NamedBy(liked[i])
        /\ liked[i].uid \notin remote[name_to_uid(cols_df, n)]}

\* the planned operations for an item and a collection name
OpsFor(plan, i, n) ==
    {k \in 1..Len(plan) : plan[k].model_uid = liked[i].uid /\ plan[k].coll_name = n}

\* C17 as stated: push plans exactly one add for every pair (item,
\* collection) whose collection is named in the item's assigned-collections,
\* is a current collection and does not already contain the item, and none
\* for any other pair.
C17_OneOpPerMissingPair ==
    [][PushStep =>
        \A i \in 1..Len(liked) :
          \A n \in KnownNames(cols_df) \cup NamedBy(liked[i]) :
            Cardinality(OpsFor(ops', i, n)) = IF <<i, n>> \in PairsToAdd THEN 1 ELSE 0]_vars

\* C18: a push with dry_run=true makes no add call and leaves the members
\* the service holds as they were; the planned operations are only counted.
C18_DryRunMakesNoCall ==
    [][(PushStep /\ pushop'.dry_run) =>
        /\ calls' = <<>>
        /\ remote' = remote]_vars

\* C18 witness: a dry run has planned at least two operations and made no
\* call.
C18_Witness ==
    /\ pushop.op = "push"
    /\ pushop.dry_run
    /\ Len(ops) >= 2
    /\ calls = <<>>

\* C19: a push with dry_run=false makes one add call for every planned
\* operation, in plan order, whether the calls before it returned or raised.
C19_EveryOpAttemptedOnce ==
    [][(PushStep /\ ~pushop'.dry_run) =>
        /\ Len(calls') = Len(ops')
        /\ \A k \in 1..Len(ops') :
              /\ calls'[k].coll_uid = ops'[k].coll_uid
              /\ calls'[k].model_uid = ops'[k].model_uid]_vars

\* C19 witness: an add call raised and the call planned after it was made
\* and returned.
C19_Witness ==
    /\ pushop.op = "push"
    /\ ~pushop.dry_run
    /\ \E k \in 1..Len(calls) :
          /\ ~calls[k].ok
          /\ k < Len(calls)
          /\ calls[k + 1].ok
          /\ calls[k + 1].model_uid \in remote[calls[k + 1].coll_uid]

(***************************************************************************)
(* Properties of re-collection (specification SpecCollect)                 *)
(***************************************************************************)
CollectStep == bookop'.op = "collect"

\* the annotation columns of an item record
AnnotationColumns ==
    {SUG_COL, FUZZY_COL, ASSIGNED_COL, NOTES_COL, "Manual", "Push Sent", "Pushed At"}

\* the rows of a sheet that hold the item with an identifier
RowsOf(bk, u) == {r \in 1..Len(bk.rows) : bk.rows[r]["UID"] = u}

\* the value a sheet stores for an item in a column, "" when it has none
Stored(bk, r, name) == PrevCell(bk, r, name)

\* C20 as stated: the annotation fields stored for an item before a
\* re-collection are attached with the same values to the item with the same
\* identifier after it, and collecting again never clears an item's
\* assigned-collections.
C20_AnnotationsSurviveCollect ==
    [][CollectStep =>
         \A r \in 1..Len(book.rows) : \A q \in RowsOf(book', book.rows[r]["UID"]) :
            \A c \in AnnotationColumns \cap Range(book.columns) :
               Stored(book', q, c) = Stored(book, r, c)]_vars

(***************************************************************************)
(* Properties of the legacy desktop app (specification SpecApp)            *)
(***************************************************************************)
ApplyStep == appop'.op = "apply_manual"

\* the rows of a frame that hold the item with an identifier
AppRowsOf(df, u) == {i \in 1..Len(df) : df[i].uid = u}

\* the non-blank override texts held for an item: its buffered value and
\* its Manual cell
OverridesOf(df, edits, u) ==
    {v \in (IF u \in DOMAIN edits THEN {edits[u]} ELSE {})
           \cup {df[i].manual : i \in AppRowsOf(df, u)} : Strip(v) # <<>>}

\* a step that is no Apply Manual gives no item an assigned-collections
\* value taken from its buffered value or its Manual cell
NoCopyOutsideApply ==
    ~ApplyStep =>
        \A i \in 1..Len(app_df') :
            LET u == app_df'[i].uid
            IN  \/ \E j \in AppRowsOf(app_df, u) : app_df[j].assigned = app_df'[i].assigned
                \/ \A v \in OverridesOf(app_df, manual_edits, u) :
                      app_df'[i].assigned \notin {v, Strip(v)}

\* an Apply Manual leaves an item with no buffered value, or a blank one,
\* its assigned-collections
ApplyKeepsOthers ==
    ApplyStep =>
        /\ Len(app_df') = Len(app_df)
        /\ \A i \in 1..Len(app_df) :
              LET u == app_df[i].uid
              IN  /\ app_df'[i].uid = u
                  /\ (u \notin DOMAIN manual_edits \/ Strip(manual_edits[u]) = <<>>)
                        => app_df'[i].assigned = app_df[i].assigned

\* C21 as stated: a buffered override reaches assigned-collections only on
\* Apply Manual; no other operation copies a buffered or Manual value into
\* assigned-collections; on Apply every buffered non-blank value becomes the
\* assigned-collections of the item with that identifier and a blank value
\* leaves assigned-collections unchanged.
C21_ManualOnlyOnApply ==
    [][/\ NoCopyOutsideApply
       /\ ApplyKeepsOthers
       /\ ApplyStep =>
            \A i \in 1..Len(app_df) :
               LET u == app_df[i].uid
               IN  (u \in DOMAIN manual_edits /\ Strip(manual_edits[u]) # <<>>)
                      => app_df'[i].assigned = manual_edits[u]]_vars

\* C21 amended: as C21, but on Apply the assigned-collections of the item
\* becomes the buffered non-blank value with the blanks around it removed.
C21_ManualStrippedOnApply ==
    [][/\ NoCopyOutsideApply
       /\ ApplyKeepsOthers
       /\ ApplyStep =>
            \A i \in 1..Len(app_df) :
               LET u == app_df[i].uid
               IN  (u \in DOMAIN manual_edits /\ Strip(manual_edits[u]) # <<>>)
                      => app_df'[i].assigned = Strip(manual_edits[u])]_vars

\* C21 witness: Apply Manual has run over two items with different buffered
\* values, one of them with blanks around the name, and each item holds its
\* own value.
C21_Witness ==
    /\ appop.op = "apply_manual"
    /\ DOMAIN manual_edits = {u_1, u_2}
    /\ manual_edits[u_1] = s_padded_feet
    /\ \E i \in AppRowsOf(app_df, u_1) : app_df[i].assigned = s_feet
    /\ \E i \in AppRowsOf(app_df, u_2) : app_df[i].assigned = s_hands

\* an item is newly marked as pushed by a step
NewlyMarked(u) ==
    \E i \in AppRowsOf(app_df', u) :
        /\ app_df'[i].push_sent
        /\ \A j \in AppRowsOf(app_df, u) :
              ~app_df[j].push_sent \/ app_df[j].pushed_at # app_df'[i].pushed_at

\* C28: an item's Push Sent flag and Pushed At timestamp are set only by a
\* push that was no dry run and in which every add operation planned for
\* the item was sent and succeeded; a dry run or a failed operation never
\* marks an item as pushed.
C28_MarkedOnlyWhenSent ==
    [][\A u \in {app_df'[i].uid : i \in 1..Len(app_df')} :
          NewlyMarked(u) =>
             /\ appop'.op = "push"
             /\ ~appop'.dry_run
             /\ Len(calls') = Len(ops')
             /\ \A k \in 1..Len(ops') : ops'[k].model_uid = u => calls'[k].ok]_vars

(***************************************************************************)
(* C22, C27: what match and auto-assign leave in the workbook              *)
(***************************************************************************)
MatchStep == bookop'.op = "match"

AutoStep == bookop'.op = "auto_assign"

\* the frame the auto-assign step's run returned
AutoOut == run_auto_assign(read_workbook(book), terms, bookop'.overwrite, horder)

\* C22: a match leaves every item, the unassigned ones included, with the
\* assigned collections and the assignment notes it had before the match
C22_MatchKeepsAssigned ==
    [][MatchStep =>
         /\ Len(book'.rows) = Len(book.rows)
         /\ \A r \in 1..Len(book.rows) :
              /\ Stored(book', r, ASSIGNED_COL) = Stored(book, r, ASSIGNED_COL)
              /\ Stored(book', r, NOTES_COL) = Stored(book, r, NOTES_COL)]_vars

\* C27: after an auto-assign the workbook holds, in each of the four
\* annotation columns, the value the run returned for the item
C27_StoresRunValues ==
    [][AutoStep =>
         \A r \in 1..Len(book.rows) :
           /\ Stored(book', r, SUG_COL) = WriteCell(AutoOut[r].sug)
           /\ Stored(book', r, FUZZY_COL) = WriteCell(AutoOut[r].fuzzy)
           /\ Stored(book', r, ASSIGNED_COL) = WriteCell(AutoOut[r].assigned)
           /\ Stored(book', r, NOTES_COL) = WriteCell(AutoOut[r].notes)]_vars

(***************************************************************************)
(* merge_collections.py: find_similar_collections and interactive_merge    *)
(* cols_df is the Collections sheet, remote the members the service holds  *)
(* per collection, pairs the list find_similar_collections returned, calls *)
(* the add requests the merge made.  A pair is [i, j, s] with the 0-based  *)
(* positions of the two collections and their similarity.                  *)
(***************************************************************************)
\* merge_collections.py line 17: the default threshold
default_threshold == 90

\* merge_collections.py lines 20-21: the positions visited, in loop order
RECURSIVE LoopPairs(_, _, _)
LoopPairs(i, j, n) ==
    IF i >= n THEN <<>>
    ELSE IF j >= n THEN LoopPairs(i + 1, i + 2, n)
    ELSE <<[i |-> i, j |-> j]>> \o LoopPairs(i, j + 1, n)

n_Robots == <<"R","o","b","o","t","s">>

MergeNames == {n_Robots, s_robot, s_hands}

\* merge_collections.py line 22 on two names
NameSimilarity(a, b) == ratio(Lower(a), Lower(b))

\* the similarities of the bounded names, computed once
NameSimilarityTable ==
    {<<a, b, NameSimilarity(a, b)>> : a \in MergeNames, b \in MergeNames}

\* merge_collections.py line 22
Similarity(cols, i, j) ==
    LET a == cols[i + 1].name
        b == cols[j + 1].name
    IN  IF \E p \in NameSimilarityTable : p[1] = a /\ p[2] = b
        THEN (CHOOSE p \in NameSimilarityTable : p[1] = a /\ p[2] = b)[3]
        ELSE NameSimilarity(a, b)

\* merge_collections.py line 25: sorted(pairs, key=lambda x: -x[2]); sorted
\* is stable, so entries with equal scores keep their loop order
RECURSIVE SortedByScore(_)
SortedByScore(ps) ==
    IF ps = <<>> THEN <<>>
    ELSE LET rest == SortedByScore(SubSeq(ps, 1, Len(ps) - 1))
             x == ps[Len(ps)]
             ahead == Cardinality({k \in 1..Len(rest) : ScoreGeq(rest[k].s, x.s)})
         IN  SubSeq(rest, 1, ahead) \o <<x>> \o SubSeq(rest, ahead + 1, Len(rest))

\* the pairs strictly above the threshold only
find_similar_strict(cols, thr) ==
    LET all == LoopPairs(0, 1, Len(cols))
        scored == [k \in 1..Len(all) |->
                     [i |-> all[k].i, j |-> all[k].j,
                      s |-> Similarity(cols, all[k].i, all[k].j)]]
        Kept(p) == ScoreGt(p.s, IntScore(thr))
    IN  SortedByScore(SelectSeq(scored, Kept))

\* merge_collections.py lines 17-25
find_similar_collections(cols, thr) ==
    LET all == LoopPairs(0, 1, Len(cols))
        scored == [k \in 1..Len(all) |->
                     [i |-> all[k].i, j |-> all[k].j,
                      s |-> Similarity(cols, all[k].i, all[k].j)]]
        Kept(p) == ScoreGeq(p.s, IntScore(thr))
    IN  SortedByScore(SelectSeq(scored, Kept))

\* merge_collections.py lines 37-42: the answer typed for a pair decides
\* which collection is kept; "" stands for a skipped pair
Choice(answer) ==
    LET choice == Lower(Strip(answer))
    IN  IF choice = <<"a">> THEN "a" ELSE IF choice = <<"b">> THEN "b" ELSE ""

Keep(cols, p, answer) == IF Choice(answer) = "a" THEN cols[p.i + 1] ELSE cols[p.j + 1]

Drop(cols, p, answer) == IF Choice(answer) = "a" THEN cols[p.j + 1] ELSE cols[p.i + 1]

\* the adds of a pair followed by the removal of the dropped collection's
\* items
PairCalls_Emptying(cols, rem, p, k, answer, fails) ==
    LET drop_items == Sorted(rem[Drop(cols, p, answer).uid])
    IN  [n \in 1..Len(drop_items) |->
           [pair |-> k, coll_uid |-> Keep(cols, p, answer).uid,
            model_uid |-> drop_items[n], ok |-> drop_items[n] \notin fails]]
        \o [n \in 1..Len(drop_items) |->
              [pair |-> k, coll_uid |-> Drop(cols, p, answer).uid,
               model_uid |-> drop_items[n], ok |-> TRUE, remove |-> TRUE]]

\* merge_collections.py lines 46-51 for pair number k: one add request per
\* listed item of the dropped collection, an add that raises is logged and
\* the loop goes on
PairCalls(cols, rem, p, k, answer, fails) ==
    LET drop_items == Sorted(rem[Drop(cols, p, answer).uid])
    IN  [n \in 1..Len(drop_items) |->
           [pair |-> k, coll_uid |-> Keep(cols, p, answer).uid,
            model_uid |-> drop_items[n], ok |-> drop_items[n] \notin fails]]

\* the service: an add that returns has put the model into the collection
\* (a removal, which the merge never requests, would take it out)
RECURSIVE ApplyMergeCalls(_, _)
ApplyMergeCalls(rem, cs) ==
    IF cs = <<>> THEN rem
    ELSE LET c == Head(cs)
             after == IF ~c.ok THEN rem
                      ELSE IF "remove" \in DOMAIN c
                      THEN [rem EXCEPT ![c.coll_uid] = @ \ {c.model_uid}]
                      ELSE [rem EXCEPT ![c.coll_uid] = @ \cup {c.model_uid}]
         IN  ApplyMergeCalls(after, Tail(cs))

\* merge_collections.py lines 34-55: the pairs from number k on; the listing
\* of the dropped collection raises at pair number stop (0: never) and ends
\* the merge there
RECURSIVE MergeCalls(_, _, _, _, _, _, _)
MergeCalls(cols, rem, ps, k, answers, fails, stop) ==
    IF k > Len(ps) THEN <<>>
    ELSE IF Choice(answers[k]) = ""
    THEN MergeCalls(cols, rem, ps, k + 1, answers, fails, stop)
    ELSE IF k = stop THEN <<>>
    ELSE LET cs == PairCalls(cols, rem, ps[k], k, answers[k], fails)
         IN  cs \o MergeCalls(cols, ApplyMergeCalls(rem, cs), ps, k + 1,
                              answers, fails, stop)

c_3 == <<"c","3">>

MergeUids == <<c_1, c_2, c_3>>

\* Collections sheets of two or three collections
MergeSheets ==
    UNION {{[k \in 1..n |-> [name |-> f[k], uid |-> MergeUids[k]]] :
              f \in [1..n -> MergeNames]} : n \in 2..3}

MergeMembers == {{}, {NatStr(1), NatStr(2)}}

MergeRemoteChoices == [Range(MergeUids) -> MergeMembers]

Thresholds == {default_threshold, 100, 0}

\* what is typed at the prompt
Answers == {<<"A">>, <<"b", " ">>, <<"n">>}

InitMerge ==
    /\ cols_df \in MergeSheets
    /\ remote \in MergeRemoteChoices
    /\ ops = <<>>
    /\ calls = <<>>
    /\ pushop = [op |-> "none"]
    /\ pairs = <<>>
    /\ mergeop = [op |-> "none"]
    /\ terms = Terms(DocNoKeys)
    /\ horder = CHOOSE h \in HashOrders : TRUE
    /\ liked = <<>>
    /\ before = <<>>
    /\ lastop = NoOp
    /\ item = NoItem
    /\ signals = NoSignals
    /\ pr = NoResult
    /\ pc = "idle"
    /\ source = NoSource
    /\ NoBookInPlay
    /\ app_df = <<>>
    /\ manual_edits = <<>>
    /\ appop = [op |-> "none"]
    /\ sent = <<>>
    /\ request = [state |-> "idle"]
    /\ busy = FALSE
    /\ handlers = <<>>

MergeFrame == <<coreVars, loadVars, bookVars, appVars, reqVars, busyVars, cols_df, ops, pushop>>

\* streamlit_app.py lines 147-152: Find Similar Collections
FindSimilar(thr) ==
    /\ mergeop.op = "none"
    /\ pairs' = find_similar_collections(cols_df, thr)
    /\ mergeop' = [op |-> "find", thr |-> thr]
    /\ UNCHANGED <<MergeFrame, remote, calls>>

\* merge_collections.py lines 28-55: one run of interactive_merge
InteractiveMerge(answers, fails, stop) ==
    /\ mergeop.op = "none"
    /\ LET ps == find_similar_collections(cols_df, default_threshold)
           cs == MergeCalls(cols_df, remote, ps, 1, answers, fails, stop)
       IN  /\ Len(answers) = Len(ps)
           /\ stop \in {0} \cup {k \in 1..Len(ps) : Choice(answers[k]) # ""}
           /\ pairs' = ps
           /\ calls' = cs
           /\ remote' = ApplyMergeCalls(remote, cs)
           /\ mergeop' = [op |-> "merge", answers |-> answers, stop |-> stop]
    /\ UNCHANGED MergeFrame

NextMerge ==
    \/ \E thr \in Thresholds : FindSimilar(thr)
    \/ \E answers \in [1..Len(find_similar_collections(cols_df, default_threshold))
                          -> Answers],
          fails \in {F \in SUBSET {NatStr(1), NatStr(2)} : Cardinality(F) <= MaxFailures},
          stop \in 0..Len(cols_df) :
            InteractiveMerge(answers, fails, stop)

SpecMerge == InitMerge /\ [][NextMerge]_vars

(***************************************************************************)
(* C23, C24: the merge tool                                                *)
(***************************************************************************)
FindStep == mergeop'.op = "find"

MergeStep == mergeop'.op = "merge"

\* the entries of a pair list for the positions i and j
EntriesFor(ps, i, j) == {k \in 1..Len(ps) : ps[k].i = i /\ ps[k].j = j}

\* C23: find_similar_collections returns exactly one entry (i, j, score),
\* i < j, for every pair of positions whose names have a case-insensitive
\* similarity ratio of at least the threshold, no entry for another pair,
\* the entries by non-increasing score, and changes neither the collection
\* list nor a membership.
C23_SimilarPairs ==
    [][FindStep =>
         LET n == Len(cols_df)
             thr == mergeop'.thr
             sim(i, j) == NameSimilarity(cols_df[i + 1].name, cols_df[j + 1].name)
         IN  /\ \A i \in 0..(n - 1), j \in 0..(n - 1) :
                  i < j =>
                    IF ScoreGeq(sim(i, j), IntScore(thr))
                    THEN /\ Cardinality(EntriesFor(pairs', i, j)) = 1
                         /\ \A k \in EntriesFor(pairs', i, j) : pairs'[k].s = sim(i, j)
                    ELSE EntriesFor(pairs', i, j) = {}
             /\ \A k \in 1..Len(pairs') :
                  /\ 0 <= pairs'[k].i
                  /\ pairs'[k].i < pairs'[k].j
                  /\ pairs'[k].j < n
             /\ \A k \in 1..Len(pairs'), l \in 1..Len(pairs') :
                  k < l => ScoreGeq(pairs'[k].s, pairs'[l].s)
             /\ cols_df' = cols_df
             /\ remote' = remote
             /\ calls' = calls]_vars

\* three similar collections found at the default threshold, the pair found
\* last in the loop listed first for its higher score
C23_Witness ==
    /\ mergeop.op = "find"
    /\ mergeop.thr = default_threshold
    /\ Len(pairs) = 3
    /\ pairs[1].i = 1
    /\ ScoreGt(pairs[1].s, pairs[2].s)

NetworkError == 0

\* sketchfab_client.py line 52: range(5)
RequestAttempts == 5

\* the throttling statuses with the plain server error among them
RetryStatuses_With500 == {429, 500, 502, 503, 504}

\* sketchfab_client.py line 64
RetryStatuses == {429, 502, 503, 504}

\* requests: Response.ok, no raise from raise_for_status
Ok(status) == ~(400 <= status /\ status < 600)

Answer(answers, n) == IF n <= Len(answers) THEN answers[n] ELSE answers[Len(answers)]

\* sketchfab_client.py lines 52-76 from the attempt numbered attempt on; got
\* is what the call received so far
RECURSIVE Attempts(_, _, _)
Attempts(answers, attempt, got) ==
    IF attempt >= RequestAttempts
    THEN [sent |-> got, state |-> "raised"]
    ELSE LET resp == Answer(answers, attempt + 1)
             now == Append(got, resp)
         IN  IF resp = NetworkError THEN [sent |-> now, state |-> "raised"]
             ELSE IF resp \in RetryStatuses THEN Attempts(answers, attempt + 1, now)
             ELSE IF Ok(resp) THEN [sent |-> now, state |-> "returned"]
             ELSE [sent |-> now, state |-> "raised"]

_request(answers) == Attempts(answers, 0, <<>>)

\* what ends a call: a success, a client or server error, a network failure
FinalAnswers == {200, 201, 204, 400, 404, 500, NetworkError}

\* the server's answers to one call: throttled a number of times, then a
\* final answer or throttled on
ServerAnswers ==
    {<<f>> : f \in FinalAnswers}
    \cup UNION {{[n \in 1..k |-> t] \o <<f>> : t \in RetryStatuses, f \in FinalAnswers} :
                  k \in 1..RequestAttempts}
    \cup {[n \in 1..RequestAttempts |-> t] : t \in RetryStatuses}
    \cup {<<429, 503, 502, 504, 429>>, <<503, 429, 200>>, <<504, 502, 404>>}

InitRequest ==
    /\ sent = <<>>
    /\ request = [state |-> "idle"]
    /\ terms = Terms(DocNoKeys)
    /\ horder = CHOOSE h \in HashOrders : TRUE
    /\ liked = <<>>
    /\ before = <<>>
    /\ lastop = NoOp
    /\ item = NoItem
    /\ signals = NoSignals
    /\ pr = NoResult
    /\ pc = "idle"
    /\ source = NoSource
    /\ NoPush
    /\ NoBookInPlay
    /\ app_df = <<>>
    /\ manual_edits = <<>>
    /\ appop = [op |-> "none"]
    /\ pairs = <<>>
    /\ mergeop = [op |-> "none"]
    /\ busy = FALSE
    /\ handlers = <<>>

\* sketchfab_client.py lines 50-76: one call of _request
Request(answers) ==
    /\ LET out == _request(answers)
       IN  /\ sent' = out.sent
           /\ request' = [state |-> out.state]
    /\ UNCHANGED <<coreVars, loadVars, pushVars, bookVars, appVars, mergeVars, busyVars>>

NextRequest == \E answers \in ServerAnswers : Request(answers)

SpecRequest == InitRequest /\ [][NextRequest]_vars

\* a status the service reports for a request it carried out
Successful(resp) == resp \in 200..299

\* C26: a call of _request ends after at most 5 attempts; every attempt but
\* the last got 429, 502, 503 or 504; the call returns only a successful
\* response, raises on any other answer and after the fifth throttled
\* attempt, and never ends without one of the two.
C26_RequestTerminates ==
    request.state # "idle" =>
      /\ request.state \in {"returned", "raised"}
      /\ Len(sent) \in 1..5
      /\ \A n \in 1..(Len(sent) - 1) : sent[n] \in {429, 502, 503, 504}
      /\ request.state = "returned" <=> Successful(sent[Len(sent)])
      /\ sent[Len(sent)] \in {429, 502, 503, 504} => Len(sent) = 5

\* a call throttled five times that raised
C26_Witness ==
    /\ request.state = "raised"
    /\ Len(sent) = 5
    /\ sent[5] = 429
    /\ sent[2] = 503

(***************************************************************************)
(* auto_assign.py lines 34-39 on one record in each shape the runner is    *)
(* given: the display name under Model Name or under Name, the Tags as a   *)
(* comma-separated string or as a list.  item is the liked model, lastop   *)
(* the shape its record had, signals what the runner computed for it.      *)
(***************************************************************************)
\* str(x) of a non-empty list of str: "['a', 'b']"
ListStr(l) ==
    <<"[">> \o Join([k \in 1..Len(l) |-> <<"'">> \o l[k] \o <<"'">>], <<",", " ">>)
            \o <<"]">>

\* the record's Tags value as line 37 sees it after `or ""` and str()
TagsText(tags_as, tags) ==
    IF tags_as = "list"
    THEN IF tags = <<>> THEN <<>> ELSE ListStr(tags)
    ELSE Join(tags, <<",", " ">>)

\* line 35: row.get("Model Name") or ""
RecordName(name_field, name) == IF name_field = "Model Name" THEN name ELSE OrEmpty(None)

\* line 37
RecordTags(tags_as, tags) == StripNonEmpty(Split(TagsText(tags_as, tags), ","))

\* lines 35-39
RecordSignals(shape, it, t) ==
    collect_signals(RecordName(shape.name_field, it.name), it.desc,
                    RecordTags(shape.tags_as, it.tags), t)

Shapes == [name_field : {"Model Name", "Name"}, tags_as : {"str", "list"}]

\* the pipeline schema's record: Model Name and a comma-separated string
PipelineShape == [name_field |-> "Model Name", tags_as |-> "str"]

InitShape ==
    /\ terms \in TermsChoices
    /\ horder = CHOOSE h \in HashOrders : TRUE
    /\ item \in SigItems
    /\ signals = NoSignals
    /\ pr = NoResult
    /\ pc = "record"
    /\ liked = <<>>
    /\ before = <<>>
    /\ lastop = NoOp
    /\ source = NoSource
    /\ NoPush
    /\ NoBookInPlay
    /\ RestIdle

\* auto_assign.py lines 34-39 for the item's record in a shape
ReadRecord(shape) ==
    /\ pc = "record"
    /\ signals' = RecordSignals(shape, item, terms)
    /\ lastop' = [op |-> "signals", shape |-> shape]
    /\ pc' = "collected"
    /\ UNCHANGED <<terms, horder, liked, before, item, pr>>
    /\ UNCHANGED <<loadVars, pushVars, bookVars, restVars>>

NextShape == \E shape \in Shapes : ReadRecord(shape)

SpecShape == InitShape /\ [][NextShape]_vars

\* C25: the runner computes for an item the same Match Signals whether its
\* record gives the display name under Model Name or under Name and the
\* Tags as a comma-separated string or as a list.
C25_ShapesAgree ==
    pc = "collected" => signals = RecordSignals(PipelineShape, item, terms)

(***************************************************************************)
(* main.py: the busy flag of the slim desktop app                          *)
(* The toolbar's handlers are plain functions; the UI runs each click's    *)
(* handler on a worker thread, so the statements of two handlers           *)
(* interleave.  handlers is the sequence of the invocations so far, each   *)
(* [op, pc]: "set" after the test of state.busy found it false, "work" in  *)
(* the try block, "finally" after the block completed or raised, "done"    *)
(* after the finally clause, "returned" when the test found busy true.     *)
(***************************************************************************)
\* the invocations of one session
MaxHandlers == 2

\* main.py lines 81, 96, 115, 148
BusyOps == {"collect", "match", "auto_assign", "push"}

SetPc(h, k, to) == [h EXCEPT ![k].pc = to]

InitBusy ==
    /\ busy = FALSE
    /\ handlers = <<>>
    /\ terms = Terms(DocNoKeys)
    /\ horder = CHOOSE h \in HashOrders : TRUE
    /\ liked = <<>>
    /\ before = <<>>
    /\ lastop = NoOp
    /\ item = NoItem
    /\ signals = NoSignals
    /\ pr = NoResult
    /\ pc = "idle"
    /\ source = NoSource
    /\ NoPush
    /\ NoBookInPlay
    /\ app_df = <<>>
    /\ manual_edits = <<>>
    /\ appop = [op |-> "none"]
    /\ pairs = <<>>
    /\ mergeop = [op |-> "none"]
    /\ sent = <<>>
    /\ request = [state |-> "idle"]

BusyFrame == <<coreVars, loadVars, pushVars, bookVars, appVars, mergeVars, reqVars>>

\* main.py lines 82-83, 97-98, 116, 149: a click starts the handler, which
\* tests state.busy and returns when it is true
StartHandler(op) ==
    /\ Len(handlers) < MaxHandlers
    /\ handlers' = Append(handlers, [op |-> op, pc |-> IF busy THEN "returned" ELSE "set"])
    /\ UNCHANGED <<busy, BusyFrame>>

\* main.py lines 84, 99, 117, 150: state.busy = True
SetBusy(k) ==
    /\ handlers[k].pc = "set"
    /\ busy' = TRUE
    /\ handlers' = SetPc(handlers, k, "work")
    /\ UNCHANGED BusyFrame

\* main.py lines 85-92, 100-110, 118-125, 151-155: the try block reads the
\* workbook, computes and writes; it completes or raises
Work(k, raised) ==
    /\ handlers[k].pc = "work"
    /\ handlers' = [handlers EXCEPT ![k] = [op |-> @.op, pc |-> "finally", raised |-> raised]]
    /\ UNCHANGED <<busy, BusyFrame>>

\* main.py lines 93-94, 111-112, 126-127, 156-157: state.busy = False
Finally(k) ==
    /\ handlers[k].pc = "finally"
    /\ busy' = FALSE
    /\ handlers' = SetPc(handlers, k, "done")
    /\ UNCHANGED BusyFrame

NextBusy ==
    \/ \E op \in BusyOps : StartHandler(op)
    \/ \E k \in 1..Len(handlers) : SetBusy(k)
    \/ \E k \in 1..Len(handlers), raised \in BOOLEAN : Work(k, raised)
    \/ \E k \in 1..Len(handlers) : Finally(k)

SpecBusy == InitBusy /\ [][NextBusy]_vars

\* the invocations inside their try block
Working == {k \in 1..Len(handlers) : handlers[k].pc = "work"}

\* every invocation has ended
AllEnded == \A k \in 1..Len(handlers) : handlers[k].pc \in {"done", "returned"}

\* C29: collect, match, auto-assign and push exclude one another through
\* state.busy: two of them are never at work at the same time, and busy is
\* false once the handlers have ended, whether they completed or raised.
C29_HandlersExclusive ==
    /\ Cardinality(Working) <= 1
    /\ AllEnded => ~busy

(***************************************************************************)
(* C30: rules without include terms (specification SpecSignals)            *)
(***************************************************************************)
\* the include terms collect_signals matches a rule on
IncludeOf(cfg) ==
    IF "include_terms" \in cfg.has THEN {Lower(t) : t \in cfg.include_terms} ELSE {}

\* C30: every recorded fuzzy hit carries the similarity score of one of the
\* rule's include terms, and a rule with no include terms has neither a rule
\* hit nor a fuzzy hit, whatever its threshold.
C30_NoIncludeNoHit ==
    Collected =>
        \A k \in 1..Len(terms.collections) :
            LET cfg == terms.collections[k]
            IN  /\ HasFuzzy(cfg.name) =>
                     \E t \in IncludeOf(cfg) :
                        FuzzyScoreOf(cfg.name) = partial_ratio(t, ItemText)
                /\ IncludeOf(cfg) = {} =>
                     /\ cfg.name \notin signals.rule_hits
                     /\ ~HasFuzzy(cfg.name)

====
